---- MODULE Spec2Model ----
(***************************************************************************)
(* Model of the API governance pipeline of api-consistency-analyzer:       *)
(* the SpecStorage file store and the APIHarvester (src/core/              *)
(* api_harvester.py) driven by harvest cycles (src/main.py run_harvest),    *)
(* and the analysis of the harvested documents (src/services/).            *)
(*                                                                         *)
(* Four specifications share the module.                                   *)
(*   Spec      - harvest cycles of the callers of run_harvest, their fetch *)
(*               tasks, the shared metrics, session and throttler, and the *)
(*               store they write.                                         *)
(*   SpecStore - the SpecStorage operations alone: save_spec,              *)
(*               get_latest_spec and detect_changes over one store.        *)
(*   SpecValidator - one analyze_service_compliance call (SpectralValidator *)
(*               findings, classification and score) on a given document.  *)
(*   SpecAnalyzer - the analysis half of run_harvest: ComplianceAnalyzer,  *)
(*               its compliance cache and the fleet summary, over cycles,  *)
(*               for every list of documents it can be handed.             *)
(***************************************************************************)
EXTENDS Integers, Sequences, FiniteSets, TLC

VARIABLES
    files,        \* SpecStorage directory: file name -> [mtime, data]
    fsclock,      \* the file system's timestamp clock (source of st_mtime)
    now,          \* SpecStore: datetime.utcnow(), read when an APISpec is created
    put,          \* SpecStore: the document of the last completed save_spec
    latest,       \* SpecStore: the last get_latest_spec call and its outcome
    changes,      \* SpecStore: the last detect_changes call and its outcome
    cpc,          \* per caller: position inside run_harvest / harvest_specs
    callno,       \* per caller: number of its harvest_specs call (0: none)
    svcs,         \* per caller: the services list passed to harvest_specs
    task,         \* per caller: the gathered harvest_service_spec tasks
    specs,        \* per caller: the list harvest_specs returned
    metrics,      \* APIHarvester.metrics (one object shared by all callers)
    session,      \* APIHarvester.session: number of the ClientSession it holds
    openSessions, \* the ClientSessions created and not closed
    throttle,     \* Throttler: fetch starts still inside the rate window
    started,      \* harvest cycles started so far
    spectral_installed, \* SpectralValidator.spectral_installed
    document,     \* SpecValidator: the spec_content under analysis
    spectral_output, \* SpecValidator: the Spectral CLI's output for it
    report,       \* SpecValidator: the ValidationReport of the last validation
    overview,     \* SpecValidator: the overview analyze_service_compliance returned
    compliance_cache, \* ComplianceAnalyzer.compliance_cache: cache key -> overview
    analysis,     \* SpecAnalyzer: the last run_harvest and what it returned
    harvest_task, \* APIGovernancePlatform.harvest_task: the _harvest_loop task
    shutdown_event, \* APIGovernancePlatform.shutdown_event
    cluster,      \* SpecDiscovery: a Kubernetes service and what its URLs answer
    discovery_config, \* IstioServiceDiscovery.discovery_config
    service_info, \* SpecDiscovery: what discovery made of the service
    fetch         \* SpecDiscovery: what the harvester does with the discovered service

storeVars == <<files, fsclock, now, put, latest, changes>>
harvestVars == <<cpc, callno, svcs, task, specs, metrics, session, openSessions, throttle, started>>
analyzerVars == <<spectral_installed, document, spectral_output, report, overview,
                  compliance_cache, analysis>>
schedulerVars == <<harvest_task, shutdown_event>>
discoveryVars == <<cluster, discovery_config, service_info, fetch>>
vars == <<files, fsclock, now, put, latest, changes,
          cpc, callno, svcs, task, specs, metrics, session, openSessions, throttle, started,
          spectral_installed, document, spectral_output, report, overview,
          compliance_cache, analysis,
          harvest_task, shutdown_event, cluster, discovery_config, service_info, fetch>>

----------------------------------------------------------------------------
(* Bounds of the model and constants of the program.                       *)

\* MAX_CONCURRENT_REQUESTS (environment, default "10"): semaphore width and
\* throttler rate.  The model runs a small configuration.
MAX_CONCURRENT_REQUESTS == 1
\* longest services list discovery hands to harvest_specs
MaxServices == 2
\* harvest cycles started in one behaviour
MaxCycles == 2
\* save_spec calls in one behaviour of SpecStore
MaxSaves == 3
\* tenacity stop_after_attempt(3)
StopAfterAttempt == 3
\* longest list of results the Spectral CLI reports for a document
MaxFindings == 4
\* entries of a document's "paths" mapping
MaxPaths == 2
\* entries of a path item's methods mapping
MaxOperations == 1

----------------------------------------------------------------------------
(* Values.                                                                 *)

None == [kind |-> "None"]
Raised == [kind |-> "raised"]

\* Identities (service name, namespace) deployed in the mesh: one service
\* name deployed in two namespaces, and a second service.
Identities == {<<"orders", "prod">>, <<"orders", "staging">>, <<"billing", "prod">>}

\* Parsed JSON bodies: two well-formed OpenAPI documents and one JSON
\* document that is not a well-formed OpenAPI document.
Contents == {"openapi_v1", "openapi_v2", "not_openapi"}

\* openapi_spec_validator.validate_spec raises on a malformed document.
WellFormed(content) == content \in {"openapi_v1", "openapi_v2"}

\* _extract_version: spec_content.get("info", {}).get("version")
ExtractVersion(content) ==
    CASE content = "openapi_v1" -> "1.0"
      [] content = "openapi_v2" -> "2.0"
      [] OTHER -> "null"

\* the OpenAPI endpoint URL discovery found for a service
EndpointOf(name, ns) == [kind |-> "url", host |-> name, namespace |-> ns]

\* APISpec(service_name, namespace, spec_url, spec_content, version); the
\* defaults: harvested_at = utcnow(), validation_errors = [], is_valid = True
APISpec(name, ns, url, content, version, at) ==
    [kind |-> "APISpec", service_name |-> name, namespace |-> ns,
     spec_url |-> url, spec_content |-> content, version |-> version,
     harvested_at |-> at, validation_errors |-> <<>>, is_valid |-> TRUE]

\* _validate_spec: validate_spec(spec.spec_content); sets is_valid, and
\* appends str(e) to validation_errors when the check raises
ValidateSpec(spec) ==
    IF WellFormed(spec.spec_content)
    THEN [spec EXCEPT !.is_valid = TRUE]
    ELSE [spec EXCEPT !.is_valid = FALSE,
                      !.validation_errors = Append(@, "validation error")]

----------------------------------------------------------------------------
(* SpecStorage.                                                            *)

\* datetime.isoformat() / datetime.fromisoformat()
IsoFormat(t) == <<"iso", t>>
FromIsoFormat(s) == s[2]

\* f"{service_name}_{namespace}_{harvested_at.isoformat()}.json"
FileName(spec) == <<spec.service_name, spec.namespace, IsoFormat(spec.harvested_at)>>

\* the dict save_spec dumps as JSON
SpecData(spec) ==
    [kind |-> "json",
     service_name |-> spec.service_name,
     namespace |-> spec.namespace,
     spec_url |-> spec.spec_url,
     version |-> spec.version,
     harvested_at |-> IsoFormat(spec.harvested_at),
     validation_errors |-> spec.validation_errors,
     is_valid |-> spec.is_valid,
     spec_content |-> spec.spec_content]

\* what open(filepath, 'w') leaves when json.dump fails part-way
Truncated == [kind |-> "truncated"]

\* Store replacing the whole mapping by the one entry
Store_OnlyEntry(f, k, v) == [x \in {k} |-> v]

\* f extended or overwritten at key k
Store(f, k, v) == [x \in DOMAIN f \cup {k} |-> IF x = k THEN v ELSE f[x]]

\* save_spec completing: the file holds the dumped dict, st_mtime = mtime
SaveSpec(fs, spec, mtime) ==
    Store(fs, FileName(spec), [mtime |-> mtime, data |-> SpecData(spec)])

\* save_spec failing inside json.dump: open() has truncated/created the file
SaveSpecTorn(fs, spec, mtime) ==
    Store(fs, FileName(spec), [mtime |-> mtime, data |-> Truncated])

\* load_spec: json.load raises on a truncated file
LoadSpec(file) ==
    IF file.data.kind # "json"
    THEN Raised
    ELSE [kind |-> "APISpec",
          service_name |-> file.data.service_name,
          namespace |-> file.data.namespace,
          spec_url |-> file.data.spec_url,
          spec_content |-> file.data.spec_content,
          version |-> file.data.version,
          harvested_at |-> FromIsoFormat(file.data.harvested_at),
          validation_errors |-> file.data.validation_errors,
          is_valid |-> file.data.is_valid]

\* list_specs(service_name): glob(f"{service_name}_*.json").  Kubernetes
\* names hold no "_", so the pattern selects the files whose first name
\* component is service_name, of every namespace.
ListSpecs(fs, service_name) == {k \in DOMAIN fs : k[1] = service_name}

\* max(specs, key=lambda x: os.path.getmtime(x)): a file of greatest
\* st_mtime; among files of equal st_mtime the directory scan order decides,
\* so each of them is a possible choice.
LatestFiles(fs, listed) ==
    {k \in listed : \A j \in listed : fs[j].mtime <= fs[k].mtime}

\* get_latest_spec: the possible outcomes, each with the state of the file
\* that was read ("absent" when list_specs found none)
GetLatestSpec(fs, service_name, namespace) ==
    LET listed == ListSpecs(fs, service_name)
    IN  IF listed = {}
        THEN {[read |-> "absent", result |-> None]}
        ELSE {[read |-> fs[k].data.kind, result |-> LoadSpec(fs[k])] :
                  k \in LatestFiles(fs, listed)}

\* _specs_differ
SpecsDiffer(spec1, spec2) ==
    spec1.version # spec2.version \/ spec1.spec_content # spec2.spec_content

\* detect_changes for one current spec, given get_latest_spec's outcome
DetectChange(spec, previous) ==
    CASE previous = Raised -> "raised"
      [] previous = None -> "new"
      [] SpecsDiffer(spec, previous) -> "updated"
      [] OTHER -> "unchanged"

----------------------------------------------------------------------------
(* SpecStore: the storage operations taken alone.                          *)

EmptyDir == [k \in {} |-> None]

StoreInit ==
    /\ files = EmptyDir
    /\ fsclock = 0
    /\ now = 0
    /\ put = None
    /\ latest = None
    /\ changes = None

\* The coroutines that run harvest cycles on the one platform object: the
\* background _harvest_loop and a POST /harvest/trigger request handler.
Callers == {"loop", "trigger"}

\* HarvestMetrics.reset()
ResetMetrics ==
    [specs_attempted |-> 0, specs_successful |-> 0,
     specs_failed |-> 0, validation_errors |-> 0]

\* APIGovernancePlatform / APIHarvester after construction, no cycle running
HarvestIdle ==
    /\ cpc = [c \in Callers |-> "idle"]
    /\ callno = [c \in Callers |-> 0]
    /\ svcs = [c \in Callers |-> <<>>]
    /\ task = [c \in Callers |-> <<>>]
    /\ specs = [c \in Callers |-> <<>>]
    /\ metrics = ResetMetrics
    /\ session = 0
    /\ openSessions = {}
    /\ throttle = 0
    /\ started = 0

\* A document as _harvest_single_spec builds it at time `at`
HarvestedSpec(name, ns, content, at) ==
    ValidateSpec(APISpec(name, ns, EndpointOf(name, ns), content,
                         ExtractVersion(content), at))

\* save_spec(spec) of a newly harvested document.  The call completes, or
\* open() raises (the directory is left as it was), or json.dump raises
\* after open() created or truncated the file.  The file's st_mtime is the
\* file system clock, which may or may not have advanced since the last
\* write.
StoreSaveSpec(name, ns, content, outcome, tick) ==
    LET spec == HarvestedSpec(name, ns, content, now)
        mtime == fsclock + tick
    IN  /\ now < MaxSaves
        /\ now' = now + 1
        /\ fsclock' = mtime
        /\ CASE outcome = "saved" ->
                    /\ files' = SaveSpec(files, spec, mtime)
                    /\ put' = spec
              [] outcome = "open_failed" ->
                    /\ files' = files
                    /\ put' = None
              [] outcome = "dump_failed" ->
                    /\ files' = SaveSpecTorn(files, spec, mtime)
                    /\ put' = None
        /\ latest' = None
        /\ changes' = None
        /\ UNCHANGED harvestVars
        /\ UNCHANGED analyzerVars
        /\ UNCHANGED schedulerVars
        /\ UNCHANGED discoveryVars

\* get_latest_spec(service_name, namespace)
StoreGetLatestSpec(service_name, namespace) ==
    /\ \E o \in GetLatestSpec(files, service_name, namespace) :
           latest' = [service_name |-> service_name, namespace |-> namespace,
                      read |-> o.read, result |-> o.result]
    /\ changes' = None
    /\ UNCHANGED <<files, fsclock, now, put>>
    /\ UNCHANGED harvestVars
    /\ UNCHANGED analyzerVars
    /\ UNCHANGED schedulerVars
    /\ UNCHANGED discoveryVars

\* detect_changes([spec]) for a document harvested now and not yet saved
StoreDetectChanges(name, ns, content) ==
    LET spec == HarvestedSpec(name, ns, content, now)
    IN  /\ \E o \in GetLatestSpec(files, name, ns) :
               changes' = [spec |-> spec, read |-> o.read, previous |-> o.result,
                           class |-> DetectChange(spec, o.result)]
        /\ latest' = None
        /\ UNCHANGED <<files, fsclock, now, put>>
        /\ UNCHANGED harvestVars
        /\ UNCHANGED analyzerVars
        /\ UNCHANGED schedulerVars
        /\ UNCHANGED discoveryVars

StoreNext ==
    \/ \E id \in Identities, content \in Contents,
          outcome \in {"saved", "open_failed", "dump_failed"}, tick \in {0, 1} :
            StoreSaveSpec(id[1], id[2], content, outcome, tick)
    \/ \E id \in Identities : StoreGetLatestSpec(id[1], id[2])
    \/ \E id \in Identities, content \in Contents :
            StoreDetectChanges(id[1], id[2], content)

\* ComplianceAnalyzer() with nothing analysed yet
AnalyzerIdle ==
    /\ report = None
    /\ overview = None
    /\ compliance_cache = EmptyDir
    /\ analysis = [cycle |-> 0, status |-> "none", services |-> <<>>, specs |-> <<>>,
                   overviews |-> <<>>, cached |-> <<>>, summary |-> None]

\* no document under validation
ValidatorIdle ==
    /\ document = None
    /\ spectral_output = <<>>

\* The _harvest_loop task as initialize() creates it (main.py line 47):
\* its position, the number of the cycle it is in, the services of that
\* cycle, how its last cycle ended, whether cancel() was called on it; and,
\* for the claims, the compliance cache as it was when the cycle began
\* (snapshot) and the position at which the task was cancelled (at).
HarvestLoopTask ==
    [pc |-> "created", cycle |-> 0, services |-> <<>>, last |-> "none",
     cancelling |-> FALSE, snapshot |-> EmptyDir, at |-> "none"]

\* APIGovernancePlatform after initialize() in continuous mode
SchedulerIdle ==
    /\ harvest_task = HarvestLoopTask
    /\ shutdown_event = FALSE

\* no discovery under observation
DiscoveryIdle ==
    /\ cluster = None
    /\ discovery_config = None
    /\ service_info = None
    /\ fetch = None

\* the platform after initialize(): an empty store, no cycle running,
\* nothing analysed, the Spectral CLI not found (the fallback validation)
Init ==
    /\ StoreInit
    /\ HarvestIdle
    /\ AnalyzerIdle
    /\ ValidatorIdle
    /\ SchedulerIdle
    /\ DiscoveryIdle
    /\ spectral_installed = FALSE

SpecStore == Init /\ [][StoreNext]_vars

----------------------------------------------------------------------------
(* SpectralValidator: linter findings, their classification, the score.    *)

RECURSIVE GCD(_, _)
GCD(a, b) == IF b = 0 THEN a ELSE GCD(b, a % b)

\* A float score, held as the exact non-negative fraction n/d in lowest
\* terms (the scores computed here are small fractions, which the float
\* arithmetic keeps apart).
Rat(n, d) == LET g == GCD(n, d) IN [num |-> n \div g, den |-> d \div g]
RatAdd(a, b) == Rat(a.num * b.den + b.num * a.den, a.den * b.den)
RatDiv(a, n) == Rat(a.num, a.den * n)
RatLess(a, b) == a.num * b.den < b.num * a.den
RatLeq(a, b) == a.num * b.den <= b.num * a.den

\* Round1 cutting the digits after the first decimal place
Round1_Truncates(x) == Rat((10 * x.num) \div x.den, 10)

\* round(x, 1): to one decimal place, an exact half going to the even digit
Round1(x) ==
    LET q == (10 * x.num) \div x.den
        r == (10 * x.num) % x.den
        up == 2 * r > x.den \/ (2 * r = x.den /\ q % 2 = 1)
    IN  Rat(IF up THEN q + 1 ELSE q, 10)

\* max(0.0, min(100.0, x))
Clamp(x) == IF RatLess(Rat(100, 1), x) THEN Rat(100, 1) ELSE x

\* Rule codes and messages, as the words they are made of: the code only
\* ever asks whether a word occurs in them.
NamingRule == <<"field", "naming", "camelcase">>
Error400Rule == <<"arc", "one", "error", "response", "400">>
Error500Rule == <<"arc", "one", "error", "response", "500">>
KebabRule == <<"arc", "one", "path", "kebab", "case">>
ErrorNamingRule == <<"error", "field", "naming">>
Missing400 == <<"Missing", "400", "Bad", "Request", "response">>
Missing500 == <<"Missing", "500", "Internal", "Server", "Error", "response">>
NotKebab == <<"Path", "should", "use", "kebab", "case">>
NotCamel == <<"Property", "should", "be", "camelCase">>
BadErrorField == <<"Inconsistent", "field", "in", "404", "schema">>

\* `word in text` / `word in text.lower()` for the single words looked for
Contains(text, word) == \E i \in DOMAIN text : text[i] = word

\* SpectralResult(code, message, path, severity, range); severity is
\* 0 = error, 1 = warn, 2 = info, 3 = hint
SpectralResult(code, message, path, severity) ==
    [code |-> code, message |-> message, path |-> path, severity |-> severity]

\* SeverityLevel has the three members critical, major, minor
SeverityLevel == {"critical", "major", "minor"}

\* An OpenAPI document as the analysis reads it: whether the dict is empty,
\* and its "paths" entry: absent, present but not a mapping (such as null),
\* or a mapping given as the list of its items in order.  A path item is
\* [path, methods], methods a list of [method, responses], responses the
\* set of status keys.
AbsentPaths == [kind |-> "absent"]
MalformedPaths == [kind |-> "malformed"]
Mapping(items) == [kind |-> "mapping", items |-> items]
Document(empty, paths) == [empty |-> empty, paths |-> paths]

\* _is_kebab_case_path: the regular expression, on the paths of the model
IsKebabCasePath(path) == path \in {"/orders", "/order-items"}

RECURSIVE OperationIssues(_, _, _)
\* _fallback_validation, inner loop over methods.items() from the k-th on
OperationIssues(path, methods, k) ==
    IF k > Len(methods) THEN <<>>
    ELSE LET where == <<"paths", path, methods[k].method, "responses">>
         IN  (IF "400" \notin methods[k].responses
              THEN <<SpectralResult(Error400Rule, Missing400, where, 1)>> ELSE <<>>)
             \o (IF "500" \notin methods[k].responses
                 THEN <<SpectralResult(Error500Rule, Missing500, where, 1)>> ELSE <<>>)
             \o OperationIssues(path, methods, k + 1)

RECURSIVE PathIssues(_, _)
\* _fallback_validation, loop over spec_content["paths"].items() from the k-th on
PathIssues(items, k) ==
    IF k > Len(items) THEN <<>>
    ELSE (IF ~IsKebabCasePath(items[k].path)
          THEN <<SpectralResult(KebabRule, NotKebab, <<"paths", items[k].path>>, 1)>>
          ELSE <<>>)
         \o OperationIssues(items[k].path, items[k].methods, 1)
         \o PathIssues(items, k + 1)

\* _fallback_validation: the findings it returns, or that it raises, which
\* it does when "paths" is present and has no items()
FallbackValidation(spec_content) ==
    CASE spec_content.paths.kind = "absent" -> [raised |-> FALSE, issues |-> <<>>]
      [] spec_content.paths.kind = "malformed" -> [raised |-> TRUE, issues |-> <<>>]
      [] OTHER -> [raised |-> FALSE, issues |-> PathIssues(spec_content.paths.items, 1)]

\* _extract_endpoint_from_path
ExtractEndpointFromPath(path) ==
    IF Len(path) >= 2 /\ path[1] = "paths" THEN path[2] ELSE "unknown"

\* _extract_field_name_from_path
ExtractFieldNameFromPath(path) ==
    IF path = <<>> THEN "unknown"
    ELSE IF path[Len(path)] # "~" THEN path[Len(path)]
    ELSE IF Len(path) > 1 THEN path[Len(path) - 1] ELSE "unknown"

\* _map_spectral_severity
MapSpectralSeverity(severity) ==
    CASE severity = 0 -> "critical"
      [] severity = 1 -> "major"
      [] OTHER -> "minor"

\* the test of _extract_naming_issues / of _extract_error_issues on a code
IsNamingCode(code) == Contains(code, "naming") \/ Contains(code, "camelcase")
IsErrorCode(code) == Contains(code, "error") \/ Contains(code, "response")

\* NamingInconsistency built from a result (the naming suggestion, a text
\* derived from field_name, is left out)
NamingInconsistency(result) ==
    [field_name |-> ExtractFieldNameFromPath(result.path),
     endpoint |-> ExtractEndpointFromPath(result.path),
     severity |-> MapSpectralSeverity(result.severity),
     rule_violated |-> result.code,
     description |-> result.message]

\* ErrorResponseInconsistency built from a result (recommendation and
\* missing_fields, texts derived from code and message, are left out)
ErrorResponseInconsistency(result) ==
    [issue_type |-> IF Contains(result.message, "Missing")
                    THEN "missing_error_response" ELSE "inconsistent_schema",
     endpoint |-> ExtractEndpointFromPath(result.path),
     http_status |-> CASE Contains(result.message, "400") -> 400
                       [] Contains(result.message, "500") -> 500
                       [] Contains(result.message, "404") -> 404
                       [] Contains(result.message, "401") -> 401
                       [] OTHER -> 400,
     description |-> result.message,
     severity |-> MapSpectralSeverity(result.severity)]

\* _extract_naming_issues
ExtractNamingIssues(spectral_results) ==
    LET kept == SelectSeq(spectral_results, LAMBDA r : IsNamingCode(r.code))
    IN  [i \in 1..Len(kept) |-> NamingInconsistency(kept[i])]

\* _extract_error_issues
ExtractErrorIssues(spectral_results) ==
    LET kept == SelectSeq(spectral_results, LAMBDA r : IsErrorCode(r.code))
    IN  [i \in 1..Len(kept) |-> ErrorResponseInconsistency(kept[i])]

\* SeverityWeight with the warn branch adding nothing
SeverityWeight_WarnUnweighted(severity) ==
    CASE severity = 0 -> 3
      [] severity = 1 -> 0
      [] OTHER -> 1

\* the weight _calculate_compliance_score gives a result
SeverityWeight(severity) ==
    CASE severity = 0 -> 3
      [] severity = 1 -> 2
      [] OTHER -> 1

RECURSIVE IssueWeight(_, _)
\* issue_weight over the results from the k-th on
IssueWeight(spectral_results, k) ==
    IF k > Len(spectral_results) THEN 0
    ELSE SeverityWeight(spectral_results[k].severity) + IssueWeight(spectral_results, k + 1)

\* base_weight = 10
BaseWeight == 10

\* _calculate_compliance_score
CalculateComplianceScore(spectral_results) ==
    IF spectral_results = <<>> THEN Rat(100, 1)
    ELSE LET issue_weight == IssueWeight(spectral_results, 1)
             total_weight == issue_weight + BaseWeight
         IN  IF total_weight = 0 THEN Rat(100, 1)
             ELSE Clamp(Rat(100 * (total_weight - issue_weight), total_weight))

\* ValidationReport
ValidationReport(name, ns, url, at, results, naming, errors, score) ==
    [service_name |-> name, namespace |-> ns, spec_url |-> url,
     validation_timestamp |-> at, spectral_results |-> results,
     naming_issues |-> naming, error_issues |-> errors,
     compliance_score |-> score, total_issues |-> Len(results)]

\* validate_openapi_spec.  `output` is what the Spectral CLI prints for the
\* document (read only when the CLI is installed; _run_spectral_validation
\* turns its own failures into no findings).  An exception of the fallback
\* gives the empty report with score 0.0.
ValidateOpenapiSpec(spec_content, name, ns, url, installed, output, at) ==
    LET fallback == FallbackValidation(spec_content)
        results == IF installed THEN output ELSE fallback.issues
    IN  IF ~installed /\ fallback.raised
        THEN ValidationReport(name, ns, url, at, <<>>, <<>>, <<>>, Rat(0, 1))
        ELSE ValidationReport(name, ns, url, at, results,
                              ExtractNamingIssues(results),
                              ExtractErrorIssues(results),
                              CalculateComplianceScore(results))

----------------------------------------------------------------------------
(* ComplianceAnalyzer: overviews, the compliance cache, the summary.       *)

\* The parsed bodies of the harvest as the analysis reads them: a document
\* with one well-named path whose operation declares its error responses,
\* one with a badly named path whose operation declares none, one whose
\* "paths" entry is null, and the empty object {}.
SpecContent(content) ==
    CASE content = "openapi_v1" ->
            Document(FALSE, Mapping(<<[path |-> "/orders",
                methods |-> <<[method |-> "get", responses |-> {"200", "400", "500"}]>>]>>))
      [] content = "openapi_v2" ->
            Document(FALSE, Mapping(<<[path |-> "/Order_Items",
                methods |-> <<[method |-> "get", responses |-> {"200"}]>>]>>))
      [] content = "empty_object" -> Document(TRUE, AbsentPaths)
      [] OTHER -> Document(FALSE, MalformedPaths)

\* http_methods of _count_endpoints
HttpMethods == {"get", "post", "put", "delete", "patch", "head", "options", "trace"}

RECURSIVE CountPathEndpoints(_, _)
\* _count_endpoints, loop over spec_content["paths"].items() from the k-th on
CountPathEndpoints(items, k) ==
    IF k > Len(items) THEN 0
    ELSE Len(SelectSeq(items[k].methods, LAMBDA m : m.method \in HttpMethods))
            + CountPathEndpoints(items, k + 1)

\* _count_endpoints: the count it returns, or that it raises, which it does
\* when "paths" is present and has no items()
CountEndpoints(spec_content) ==
    CASE spec_content.paths.kind = "absent" -> [raised |-> FALSE, count |-> 0]
      [] spec_content.paths.kind = "malformed" -> [raised |-> TRUE, count |-> 0]
      [] OTHER -> [raised |-> FALSE,
                   count |-> CountPathEndpoints(spec_content.paths.items, 1)]

\* ServiceComplianceOverview
ServiceComplianceOverview(name, ns, endpoints, naming, errors, score, at, url) ==
    [service_name |-> name, namespace |-> ns, total_endpoints |-> endpoints,
     inconsistent_naming_count |-> Len(naming),
     inconsistent_error_count |-> Len(errors),
     compliance_percentage |-> score,
     naming_issues |-> naming, error_issues |-> errors,
     last_analyzed |-> at, openapi_url |-> url]

\* CacheKey built from the service name alone
CacheKey_NameOnly(name, ns) == <<"", ":", name>>

\* cache_key = f"{namespace}:{service_name}"
CacheKey(name, ns) == <<ns, ":", name>>

\* analyze_service_compliance: the overview it returns and whether it was
\* put in compliance_cache.  An exception after the validation (from
\* _count_endpoints) is caught: the minimal overview is returned and the
\* cache is left alone.
AnalyzeServiceCompliance(name, ns, spec_content, url, installed, output, at) ==
    LET validation_report ==
            ValidateOpenapiSpec(spec_content, name, ns, url, installed, output, at)
        total_endpoints == CountEndpoints(spec_content)
    IN  IF total_endpoints.raised
        THEN [cached |-> FALSE,
              overview |-> ServiceComplianceOverview(name, ns, 0, <<>>, <<>>,
                                                     Rat(0, 1), at, url)]
        ELSE [cached |-> TRUE,
              overview |-> ServiceComplianceOverview(name, ns, total_endpoints.count,
                               validation_report.naming_issues,
                               validation_report.error_issues,
                               validation_report.compliance_score, at, url)]

RECURSIVE AnalyzeAllServices(_, _, _, _, _, _)
\* analyze_all_services over services_specs from the k-th on, starting from
\* `cache`: the cache it leaves and the overviews it returns.  outputs[k] is
\* the Spectral CLI's output for the k-th document.
AnalyzeAllServices(cache, services_specs, installed, outputs, at, k) ==
    IF k > Len(services_specs)
    THEN [cache |-> cache, overviews |-> <<>>, cached |-> <<>>]
    ELSE LET s == services_specs[k]
             a == AnalyzeServiceCompliance(s.service_name, s.namespace, s.spec_content,
                                           s.spec_url, installed, outputs[k], at)
             after == IF a.cached
                      THEN Store(cache, CacheKey(s.service_name, s.namespace), a.overview)
                      ELSE cache
             rest == AnalyzeAllServices(after, services_specs, installed, outputs, at, k + 1)
         IN  [cache |-> rest.cache,
              overviews |-> <<a.overview>> \o rest.overviews,
              cached |-> <<a.cached>> \o rest.cached]

\* run_harvest, lines 98-107: the documents with a non-empty spec_content,
\* as the dicts handed to analyze_all_services
ServicesSpecs(harvested) ==
    LET kept == SelectSeq(harvested, LAMBDA spec : ~SpecContent(spec.spec_content).empty)
    IN  [i \in 1..Len(kept) |->
            [service_name |-> kept[i].service_name,
             namespace |-> kept[i].namespace,
             spec_content |-> SpecContent(kept[i].spec_content),
             spec_url |-> kept[i].spec_url]]

RECURSIVE TotalCompliance(_, _)
\* sum(overview.compliance_percentage ...) from the k-th overview on
TotalCompliance(overviews, k) ==
    IF k > Len(overviews) THEN Rat(0, 1)
    ELSE RatAdd(overviews[k].compliance_percentage, TotalCompliance(overviews, k + 1))

RECURSIVE CountIssues(_, _, _)
\* the issues of the overviews from the k-th on that the severity loop of
\* get_compliance_summary counts under `level` (whatever is neither
\* critical nor major is counted as minor)
CountIssues(overviews, level, k) ==
    IF k > Len(overviews) THEN 0
    ELSE LET issues == overviews[k].naming_issues \o overviews[k].error_issues
             counted(i) == IF issues[i].severity \in {"critical", "major"}
                           THEN issues[i].severity ELSE "minor"
         IN  Cardinality({i \in DOMAIN issues : counted(i) = level})
                + CountIssues(overviews, level, k + 1)

\* get_compliance_summary
GetComplianceSummary(overviews) ==
    IF overviews = <<>>
    THEN [total_services |-> 0, average_compliance |-> Rat(0, 1),
          critical_issues |-> 0, major_issues |-> 0, minor_issues |-> 0,
          services_by_compliance |-> [high |-> 0, medium |-> 0, low |-> 0]]
    ELSE LET score(i) == overviews[i].compliance_percentage
         IN  [total_services |-> Len(overviews),
              average_compliance |->
                  Round1(RatDiv(TotalCompliance(overviews, 1), Len(overviews))),
              critical_issues |-> CountIssues(overviews, "critical", 1),
              major_issues |-> CountIssues(overviews, "major", 1),
              minor_issues |-> CountIssues(overviews, "minor", 1),
              services_by_compliance |->
                  [high |-> Cardinality({i \in DOMAIN overviews :
                                            RatLeq(Rat(90, 1), score(i))}),
                   medium |-> Cardinality({i \in DOMAIN overviews :
                                            /\ RatLeq(Rat(70, 1), score(i))
                                            /\ RatLess(score(i), Rat(90, 1))}),
                   low |-> Cardinality({i \in DOMAIN overviews :
                                            RatLess(score(i), Rat(70, 1))})]]

\* get_cached_compliance
GetCachedCompliance(cache, name, ns) ==
    IF CacheKey(name, ns) \in DOMAIN cache THEN cache[CacheKey(name, ns)] ELSE None

\* GET /compliance/overview: one row per cache entry
GetComplianceOverview(cache) ==
    [k \in DOMAIN cache |->
        [service_name |-> cache[k].service_name,
         namespace |-> cache[k].namespace,
         total_endpoints |-> cache[k].total_endpoints,
         inconsistent_naming_count |-> cache[k].inconsistent_naming_count,
         inconsistent_error_count |-> cache[k].inconsistent_error_count,
         compliance_percentage |-> cache[k].compliance_percentage,
         openapi_url |-> cache[k].openapi_url,
         last_analyzed |-> IsoFormat(cache[k].last_analyzed)]]

----------------------------------------------------------------------------
(* APIHarvester: harvest_specs and its fetch tasks.                        *)

\* ServiceInfo as discovery returns it: identity and the probed endpoint
ServiceInfo(name, ns, endpoint) ==
    [name |-> name, namespace |-> ns, openapi_endpoint |-> endpoint]

\* The mesh: two services that serve an OpenAPI document and one for which
\* the probe found no endpoint.
Mesh ==
    << ServiceInfo("orders", "prod", EndpointOf("orders", "prod")),
       ServiceInfo("orders", "staging", EndpointOf("orders", "staging")),
       ServiceInfo("billing", "prod", None) >>

RECURSIVE Pick(_, _, _)
\* the services of Mesh whose index is in `chosen`, in discovery order;
\* those in `unprobed` are returned with openapi_endpoint = None (none of
\* the candidate URLs answered in this discovery)
Pick(chosen, unprobed, i) ==
    IF i > Len(Mesh) THEN <<>>
    ELSE IF i \in chosen
         THEN <<IF i \in unprobed
                THEN ServiceInfo(Mesh[i].name, Mesh[i].namespace, None)
                ELSE Mesh[i]>> \o Pick(chosen, unprobed, i + 1)
         ELSE Pick(chosen, unprobed, i + 1)

\* the lists discover_services can return
ServiceLists ==
    {Pick(chosen, unprobed, 1) :
        chosen \in {x \in SUBSET (1..Len(Mesh)) : Cardinality(x) <= MaxServices},
        unprobed \in SUBSET (1..Len(Mesh))}

\* What the GET of an endpoint can come to: status 0 stands for a transport
\* error (no response), body "unparseable" for a body response.json() rejects.
Responses ==
    {[status |-> 200, body |-> b] : b \in {"openapi_v1", "not_openapi", "unparseable"}}
        \cup {[status |-> st, body |-> "none"] : st \in {0, 404, 500}}

\* a task of asyncio.gather before its first step
NewTask == [pc |-> "pending", attempts |-> 0, result |-> None, sess |-> 0]

RecordSpecAttempt(m) == [m EXCEPT !.specs_attempted = @ + 1]
RecordSpecSuccess(m) == [m EXCEPT !.specs_successful = @ + 1]
RecordSpecFailure(m) == [m EXCEPT !.specs_failed = @ + 1]
RecordValidationError(m) == [m EXCEPT !.validation_errors = @ + 1]

\* HarvestMetrics.success_rate: 0.0 when nothing was attempted, otherwise
\* specs_successful / specs_attempted, as the fraction [num, den]
SuccessRate(m) ==
    IF m.specs_attempted = 0
    THEN [num |-> 0, den |-> 1]
    ELSE [num |-> m.specs_successful, den |-> m.specs_attempted]

\* utils/metrics.py: the label names the Prometheus metrics behind
\* record_spec_success and record_duration are declared with
HarvestedSpecsLabels == <<"service", "namespace", "status">>
HarvestDurationLabels == <<"operation">>

\* prometheus_client: inc() / observe() called on a metric that was declared
\* with label names, without .labels(...) first, raises ValueError
RaisesWithoutLabels(labelnames) == labelnames # <<>>

\* record_spec_success(): specs_successful += 1, then
\* harvest_metrics.harvested_specs.inc(), which is called without labels
RecordSpecSuccessCall(m) ==
    [raises |-> RaisesWithoutLabels(HarvestedSpecsLabels), metrics |-> RecordSpecSuccess(m)]

\* The body of _harvest_single_spec from the response on (lines 249-284):
\* the value it returns, whether it raises, and the metrics it leaves.
\* `at` is the utcnow() the new APISpec takes as harvested_at.  A cycle
\* uses of that instant only that it differs between two harvests of one
\* identity: the documents of a harvest_specs call carry the call's number.
\* `except Exception` turns a transport error, a rejected body and an
\* exception of record_spec_success() into a recorded failure and a None
\* result, so the body never raises.
HandleResponse(service, resp, at, m) ==
    IF resp.status = 0
    THEN [result |-> None, raises |-> FALSE, metrics |-> RecordSpecFailure(m)]
    ELSE IF resp.status # 200
    THEN [result |-> None, raises |-> FALSE, metrics |-> RecordSpecFailure(m)]
    ELSE IF resp.body = "unparseable"
    THEN [result |-> None, raises |-> FALSE, metrics |-> RecordSpecFailure(m)]
    ELSE LET spec == HarvestedSpec(service.name, service.namespace, resp.body, at)
             counted == RecordSpecSuccessCall(
                            IF spec.is_valid THEN m ELSE RecordValidationError(m))
         IN  IF counted.raises
             THEN [result |-> None, raises |-> FALSE,
                   metrics |-> RecordSpecFailure(counted.metrics)]
             ELSE [result |-> spec, raises |-> FALSE, metrics |-> counted.metrics]

\* @retry(stop=stop_after_attempt(3)): the decorated body runs again when it
\* raised and fewer than 3 attempts were made
Retries(outcome, attempts) == outcome.raises /\ attempts < StopAfterAttempt

\* asyncio.Semaphore(MAX_CONCURRENT_REQUESTS) of caller c's harvest_specs
\* call: its value is the width less the tasks inside `async with semaphore`
SemaphoreValue(c) ==
    MAX_CONCURRENT_REQUESTS
        - Cardinality({i \in DOMAIN task[c] : task[c][i].pc \in {"throttled", "fetching"}})

\* the fetches in flight: tasks suspended in session.get / response.json
InFlight == {<<c, i>> \in Callers \X (1..Len(Mesh)) :
                 i \in DOMAIN task[c] /\ task[c][i].pc = "fetching"}

\* run_harvest is entered: by the loop's next iteration or by a request.
\* Nothing in run_harvest, _harvest_loop or the route looks at whether
\* another cycle is in progress.
StartCycle(c) ==
    /\ cpc[c] = "idle"
    /\ started < MaxCycles
    /\ started' = started + 1
    /\ cpc' = [cpc EXCEPT ![c] = "discover"]
    /\ UNCHANGED <<callno, svcs, task, specs, metrics, session, openSessions, throttle>>
    /\ UNCHANGED storeVars
    /\ UNCHANGED analyzerVars
    /\ UNCHANGED schedulerVars
    /\ UNCHANGED discoveryVars

\* discover_services returned `services`; harvest_specs runs up to its
\* await of asyncio.gather: metrics.reset(), __aenter__ (a new session
\* replaces self.session), a new semaphore, one task per service.
HarvestStart(c, services) ==
    /\ cpc[c] = "discover"
    /\ cpc' = [cpc EXCEPT ![c] = "gather"]
    /\ callno' = [callno EXCEPT ![c] = session + 1]
    /\ svcs' = [svcs EXCEPT ![c] = services]
    /\ task' = [task EXCEPT ![c] = [i \in 1..Len(services) |-> NewTask]]
    /\ metrics' = ResetMetrics
    /\ session' = session + 1
    /\ openSessions' = openSessions \cup {session + 1}
    /\ UNCHANGED <<specs, throttle, started>>
    /\ UNCHANGED storeVars
    /\ UNCHANGED analyzerVars
    /\ UNCHANGED schedulerVars
    /\ UNCHANGED discoveryVars

\* Attempt n of a task from `async with self.throttler` on: the throttler
\* admits the task when fewer than rate_limit starts are inside the window;
\* then session.get on self.session, which raises at once when that session
\* is closed (caught by `except Exception`: a recorded failure).
BeginFetch(c, i, n, m) ==
    IF throttle >= MAX_CONCURRENT_REQUESTS
    THEN /\ task' = [task EXCEPT ![c][i].pc = "throttled", ![c][i].attempts = n]
         /\ metrics' = m
         /\ UNCHANGED throttle
    ELSE /\ throttle' = throttle + 1
         /\ IF session \in openSessions
            THEN /\ task' = [task EXCEPT ![c][i].pc = "fetching", ![c][i].attempts = n,
                                         ![c][i].sess = session]
                 /\ metrics' = m
            ELSE /\ task' = [task EXCEPT ![c][i].pc = "done", ![c][i].attempts = n]
                 /\ metrics' = RecordSpecFailure(m)

\* harvest_service_spec(service) acquires the call's semaphore and enters
\* _harvest_single_spec: no endpoint returns None; otherwise the attempt is
\* recorded and the fetch begins.  The event loop starts the tasks of one
\* gather, and wakes the waiters of one semaphore, in order.
TaskStart(c, i) ==
    /\ cpc[c] = "gather"
    /\ i \in DOMAIN task[c]
    /\ task[c][i].pc = "pending"
    /\ \A j \in 1..(i - 1) : task[c][j].pc # "pending"
    /\ SemaphoreValue(c) > 0
    /\ IF svcs[c][i].openapi_endpoint = None
       THEN /\ task' = [task EXCEPT ![c][i].pc = "done", ![c][i].attempts = 1]
            /\ UNCHANGED <<metrics, throttle>>
       ELSE BeginFetch(c, i, 1, RecordSpecAttempt(metrics))
    /\ UNCHANGED <<cpc, callno, svcs, specs, session, openSessions, started>>
    /\ UNCHANGED storeVars
    /\ UNCHANGED analyzerVars
    /\ UNCHANGED schedulerVars
    /\ UNCHANGED discoveryVars

\* a task waiting in Throttler.acquire is admitted
ThrottleAdmits(c, i) ==
    /\ cpc[c] = "gather"
    /\ i \in DOMAIN task[c]
    /\ task[c][i].pc = "throttled"
    /\ throttle < MAX_CONCURRENT_REQUESTS
    /\ BeginFetch(c, i, task[c][i].attempts, metrics)
    /\ UNCHANGED <<cpc, callno, svcs, specs, session, openSessions, started>>
    /\ UNCHANGED storeVars
    /\ UNCHANGED analyzerVars
    /\ UNCHANGED schedulerVars
    /\ UNCHANGED discoveryVars

\* the oldest start leaves the throttler's one-second window
ThrottleExpires ==
    /\ throttle > 0
    /\ throttle' = throttle - 1
    /\ UNCHANGED <<cpc, callno, svcs, task, specs, metrics, session, openSessions, started>>
    /\ UNCHANGED storeVars
    /\ UNCHANGED analyzerVars
    /\ UNCHANGED schedulerVars
    /\ UNCHANGED discoveryVars

\* The GET of task i resolves with `resp`; the rest of _harvest_single_spec
\* runs and the task leaves the semaphore.  A request on a session that was
\* closed meanwhile can only end in a transport error.
FetchResolves(c, i, resp) ==
    /\ cpc[c] = "gather"
    /\ i \in DOMAIN task[c]
    /\ task[c][i].pc = "fetching"
    /\ task[c][i].sess \notin openSessions => resp.status = 0
    /\ LET out == HandleResponse(svcs[c][i], resp, callno[c], metrics)
           n == task[c][i].attempts
       IN  IF Retries(out, n)
           THEN \* tenacity sleeps and runs the body again, inside the semaphore
                /\ metrics' = RecordSpecAttempt(out.metrics)
                /\ task' = [task EXCEPT ![c][i] =
                               [pc |-> "throttled", attempts |-> n + 1,
                                result |-> None, sess |-> 0]]
           ELSE /\ metrics' = out.metrics
                /\ task' = [task EXCEPT ![c][i] =
                               [pc |-> "done", attempts |-> n,
                                result |-> out.result, sess |-> 0]]
    /\ UNCHANGED <<cpc, callno, svcs, specs, session, openSessions, throttle, started>>
    /\ UNCHANGED storeVars
    /\ UNCHANGED analyzerVars
    /\ UNCHANGED schedulerVars
    /\ UNCHANGED discoveryVars

RECURSIVE SaveAll(_, _, _, _, _, _, _)
\* The loop of harvest_specs over the gathered documents from the k-th on:
\* `await self.storage.save_spec(result)` for each in turn.  The failAt-th
\* save raises (failAt = 0: none does) and ends the loop; ticks[k] tells
\* whether the file system clock advanced before the k-th write.
SaveAll(fs, clock, docs, k, failAt, mode, ticks) ==
    IF k > Len(docs)
    THEN [files |-> fs, fsclock |-> clock]
    ELSE LET mtime == clock + ticks[k]
         IN  IF k # failAt
             THEN SaveAll(SaveSpec(fs, docs[k], mtime), mtime, docs, k + 1, failAt, mode, ticks)
             ELSE IF mode = "dump_failed"
                  THEN [files |-> SaveSpecTorn(fs, docs[k], mtime), fsclock |-> mtime]
                  ELSE [files |-> fs, fsclock |-> clock]

\* the results of gather that are APISpec objects, in task order
GatheredSpecs(c) ==
    LET results == [i \in DOMAIN task[c] |-> task[c][i].result]
    IN  SelectSeq(results, LAMBDA r : r # None)

\* record_duration(duration): total_duration = duration, then
\* harvest_metrics.harvest_duration.observe(duration), called without labels
RecordDurationRaises == RaisesWithoutLabels(HarvestDurationLabels)

\* gather has returned: the filter loop of harvest_specs (lines 205-213)
\* appends and saves each document, then __aexit__ closes self.session and
\* record_duration is called (line 217).  Nothing here suspends, so it runs
\* as one step.  A save that raises leaves the loop and harvest_specs by
\* the exception (__aexit__ still runs), and so does record_duration when it
\* raises: harvest_specs returns its list only when neither did.  The
\* call's tasks and services list end with it.
FilterResults(c, failAt, mode, ticks) ==
    LET docs == GatheredSpecs(c)
        saved == SaveAll(files, fsclock, docs, 1, failAt, mode, ticks)
    IN  /\ cpc[c] = "gather"
        /\ \A i \in DOMAIN task[c] : task[c][i].pc = "done"
        /\ failAt <= Len(docs)
        /\ files' = saved.files
        /\ fsclock' = saved.fsclock
        /\ openSessions' = openSessions \ {session}
        /\ IF failAt = 0 /\ ~RecordDurationRaises
           THEN /\ specs' = [specs EXCEPT ![c] = docs]
                /\ cpc' = [cpc EXCEPT ![c] = "analyze"]
           ELSE /\ specs' = [specs EXCEPT ![c] = <<>>]
                /\ cpc' = [cpc EXCEPT ![c] = "raised"]
        /\ callno' = [callno EXCEPT ![c] = 0]
        /\ svcs' = [svcs EXCEPT ![c] = <<>>]
        /\ task' = [task EXCEPT ![c] = <<>>]
        /\ UNCHANGED <<metrics, session, throttle, started>>
        /\ UNCHANGED <<now, put, latest, changes>>
        /\ UNCHANGED analyzerVars
        /\ UNCHANGED schedulerVars
        /\ UNCHANGED discoveryVars

\* harvest_specs raised: the exception leaves run_harvest; _harvest_loop
\* logs "Harvest cycle failed", the route answers 500
CycleFails(c) ==
    /\ cpc[c] = "raised"
    /\ cpc' = [cpc EXCEPT ![c] = "idle"]
    /\ specs' = [specs EXCEPT ![c] = <<>>]
    /\ UNCHANGED <<callno, svcs, task, metrics, session, openSessions, throttle, started>>
    /\ UNCHANGED storeVars
    /\ UNCHANGED analyzerVars
    /\ UNCHANGED schedulerVars
    /\ UNCHANGED discoveryVars

Next ==
    \/ \E c \in Callers : StartCycle(c)
    \/ \E c \in Callers, services \in ServiceLists : HarvestStart(c, services)
    \/ \E c \in Callers, i \in 1..Len(Mesh) : TaskStart(c, i)
    \/ \E c \in Callers, i \in 1..Len(Mesh) : ThrottleAdmits(c, i)
    \/ ThrottleExpires
    \/ \E c \in Callers, i \in 1..Len(Mesh), resp \in Responses : FetchResolves(c, i, resp)
    \/ \E c \in Callers, failAt \in 0..MaxServices, mode \in {"open_failed", "dump_failed"},
          ticks \in [1..MaxServices -> {0, 1}] : FilterResults(c, failAt, mode, ticks)
    \/ \E c \in Callers : CycleFails(c)

Spec == Init /\ [][Next]_vars

----------------------------------------------------------------------------
(* SpecValidator: one analyze_service_compliance call on a document and    *)
(* linter output drawn at the start.                                       *)

\* the results the Spectral CLI can report: each rule code with its message,
\* at each severity
Findings ==
    {SpectralResult(r[1], r[2], <<"paths", "/orders", "get", "responses">>, severity) :
        r \in {<<NamingRule, NotCamel>>, <<Error400Rule, Missing400>>,
               <<KebabRule, NotKebab>>, <<ErrorNamingRule, BadErrorField>>},
        severity \in 0..3}

\* the outputs of the Spectral CLI: lists of up to MaxFindings results
SpectralOutputs == UNION {[1..n -> Findings] : n \in 0..MaxFindings}

\* methods mappings of up to MaxOperations entries: an HTTP method or an
\* extension key, each declaring some of the error responses
MethodsMappings ==
    LET entries == {[method |-> m, responses |-> rs] :
                       m \in {"get", "x-internal"}, rs \in SUBSET {"400", "500"}}
    IN  {ms \in UNION {[1..n -> entries] : n \in 0..MaxOperations} :
            \A i, j \in DOMAIN ms : i # j => ms[i].method # ms[j].method}

\* the documents handed to the fallback validation: "paths" mappings of up
\* to MaxPaths entries, and the documents without a usable "paths"
Documents ==
    LET entries == {[path |-> p, methods |-> ms] :
                       p \in {"/orders", "/Order_Items"}, ms \in MethodsMappings}
        mappings == {ps \in UNION {[1..n -> entries] : n \in 0..MaxPaths} :
                        \A i, j \in DOMAIN ps : i # j => ps[i].path # ps[j].path}
    IN  {Document(FALSE, Mapping(ps)) : ps \in mappings}
            \cup {Document(FALSE, AbsentPaths), Document(FALSE, MalformedPaths)}

\* SpectralValidator.__init__ found the CLI or not; a document and, with the
\* CLI, its output are given
ValidatorInit ==
    /\ StoreInit
    /\ HarvestIdle
    /\ AnalyzerIdle
    /\ SchedulerIdle
    /\ DiscoveryIdle
    /\ spectral_installed \in BOOLEAN
    /\ IF spectral_installed
       THEN /\ document \in {SpecContent("openapi_v1"), SpecContent("not_openapi")}
            /\ spectral_output \in SpectralOutputs
       ELSE /\ document \in Documents
            /\ spectral_output = <<>>

\* analyze_service_compliance("orders", "prod", document, url): the report of
\* validate_openapi_spec, the overview returned, the cache entry
ValidatorAnalyze ==
    LET url == EndpointOf("orders", "prod")
        a == AnalyzeServiceCompliance("orders", "prod", document, url,
                                      spectral_installed, spectral_output, 1)
    IN  /\ overview = None
        /\ report' = ValidateOpenapiSpec(document, "orders", "prod", url,
                                         spectral_installed, spectral_output, 1)
        /\ overview' = a.overview
        /\ compliance_cache' = IF a.cached
                               THEN Store(compliance_cache, CacheKey("orders", "prod"), a.overview)
                               ELSE compliance_cache
        /\ UNCHANGED <<spectral_installed, document, spectral_output, analysis>>
        /\ UNCHANGED storeVars
        /\ UNCHANGED harvestVars
        /\ UNCHANGED schedulerVars
        /\ UNCHANGED discoveryVars

ValidatorNext == ValidatorAnalyze

SpecValidator == ValidatorInit /\ [][ValidatorNext]_vars

----------------------------------------------------------------------------
(* SpecAnalyzer: the analysis half of run_harvest (lines 98-124) over the  *)
(* one ComplianceAnalyzer.  The list of documents it is handed is taken as *)
(* given: every list of APISpec objects for the discovered services that   *)
(* have an OpenAPI endpoint.  (Under Spec harvest_specs hands over none.)  *)

\* what the harvest can bring for a service: a document or nothing
HarvestOutcomes == {"openapi_v1", "openapi_v2", "not_openapi", "empty_object", "nothing"}

\* the Spectral CLI outputs of the cycles: clean, one warning on a naming
\* rule, two errors
CycleOutputs ==
    {<<>>,
     <<SpectralResult(NamingRule, NotCamel, <<"paths", "/orders", "get">>, 1)>>,
     <<SpectralResult(Error400Rule, Missing400, <<"paths", "/orders", "get", "responses">>, 0),
       SpectralResult(KebabRule, NotKebab, <<"paths", "/orders">>, 0)>>}

AnalyzerInit ==
    /\ StoreInit
    /\ HarvestIdle
    /\ AnalyzerIdle
    /\ ValidatorIdle
    /\ SchedulerIdle
    /\ DiscoveryIdle
    /\ spectral_installed \in BOOLEAN

\* HarvestResult handing over a document also for a service without an
\* OpenAPI endpoint
HarvestResult_IgnoresEndpoint(services, outcomes, at) ==
    LET got == SelectSeq([i \in 1..Len(services) |-> [service |-> services[i], body |-> outcomes[i]]],
                         LAMBDA x : x.body # "nothing")
    IN  [i \in 1..Len(got) |->
            HarvestedSpec(got[i].service.name, got[i].service.namespace, got[i].body, at)]

\* The list `specs` the analysis half of run_harvest is handed (line 95),
\* taken as given: an APISpec, in service order, for each service that has
\* an OpenAPI endpoint (_harvest_single_spec returns None without one) and
\* whose fetch brought a document; outcomes[i] is what the fetch of the
\* i-th brought, `at` the cycle's number.
HarvestResult(services, outcomes, at) ==
    LET got == SelectSeq([i \in 1..Len(services) |-> [service |-> services[i], body |-> outcomes[i]]],
                         LAMBDA x : x.service.openapi_endpoint # None /\ x.body # "nothing")
    IN  [i \in 1..Len(got) |->
            HarvestedSpec(got[i].service.name, got[i].service.namespace, got[i].body, at)]

\* A run_harvest that completes: discovery returned `services`, the list
\* `specs` holds the documents of `outcomes`, they are analysed (lines
\* 98-110) and summarised (line 114).
AnalyzerRunHarvest(services, outcomes, outputs) ==
    LET at == analysis.cycle + 1
        harvested == HarvestResult(services, outcomes, at)
        services_specs == ServicesSpecs(harvested)
        done == AnalyzeAllServices(compliance_cache, services_specs,
                                   spectral_installed, outputs, at, 1)
    IN  /\ analysis.cycle < MaxCycles
        /\ \A i \in 1..MaxServices :
              \/ outputs[i] = <<>>
              \/ /\ spectral_installed
                 /\ i <= Len(services_specs)
                 /\ services_specs[i].spec_content.paths.kind # "malformed"
        /\ \A i \in 1..MaxServices : outcomes[i] = "nothing" \/ i <= Len(services)
        /\ compliance_cache' = done.cache
        /\ analysis' = [cycle |-> at, status |-> "completed", services |-> services,
                        specs |-> harvested, overviews |-> done.overviews, cached |-> done.cached,
                        summary |-> GetComplianceSummary(done.overviews)]
        /\ UNCHANGED <<spectral_installed, document, spectral_output, report, overview>>
        /\ UNCHANGED storeVars
        /\ UNCHANGED harvestVars
        /\ UNCHANGED schedulerVars
        /\ UNCHANGED discoveryVars

\* A run_harvest that harvest_specs leaves by an exception: nothing is
\* analysed.
AnalyzerCycleFails(services) ==
    /\ analysis.cycle < MaxCycles
    /\ analysis' = [cycle |-> analysis.cycle + 1, status |-> "failed", services |-> services,
                    specs |-> <<>>, overviews |-> <<>>, cached |-> <<>>, summary |-> None]
    /\ UNCHANGED <<spectral_installed, document, spectral_output, report, overview,
                   compliance_cache>>
    /\ UNCHANGED storeVars
    /\ UNCHANGED harvestVars
    /\ UNCHANGED schedulerVars
    /\ UNCHANGED discoveryVars

AnalyzerNext ==
    \/ \E services \in ServiceLists, outcomes \in [1..MaxServices -> HarvestOutcomes],
          outputs \in [1..MaxServices -> CycleOutputs] :
            AnalyzerRunHarvest(services, outcomes, outputs)
    \/ \E services \in ServiceLists : AnalyzerCycleFails(services)

SpecAnalyzer == AnalyzerInit /\ [][AnalyzerNext]_vars

----------------------------------------------------------------------------
(* SpecLoop: the background _harvest_loop task and shutdown().  The cycles *)
(* are run_harvest calls; as under SpecAnalyzer, what harvest_specs hands  *)
(* over when it returns is taken as given.  SpecLoopFair adds what the     *)
(* event loop and the timer of wait_for guarantee.                         *)

\* the exceptions a cycle can end with: ValueError (record_duration), OSError
\* (save_spec); the event loop throws asyncio.CancelledError into a task
\* whose cancel() was called
CycleErrors == {"ValueError", "OSError"}

\* IsException catching OSError alone
IsException_OnlyOSError(exc) == exc = "OSError"

\* whether `except Exception` (main.py line 76) catches the exception:
\* asyncio.CancelledError derives from BaseException, not from Exception
IsException(exc) == exc # "CancelledError"

\* Suspended without the awaits inside run_harvest: a cancel() that reaches
\* the task only before its first step and in wait_for
Suspended_BetweenCycles == {"created", "wait"}

\* the awaits of _harvest_loop at which the task is suspended: before its
\* first step, run_harvest's discover_services and harvest_specs, wait_for
Suspended == {"created", "discover", "harvest", "wait"}

\* `while not self.shutdown_event.is_set()` (line 71): the loop returns, or
\* the next cycle begins and runs up to run_harvest's await of
\* discover_services
LoopIterate ==
    IF shutdown_event
    THEN harvest_task' = [harvest_task EXCEPT !.pc = "returned"]
    ELSE harvest_task' = [harvest_task EXCEPT !.pc = "discover", !.cycle = @ + 1,
                                             !.services = <<>>,
                                             !.snapshot = compliance_cache]

\* the task's first step
LoopStarts ==
    /\ harvest_task.pc = "created"
    /\ ~harvest_task.cancelling
    /\ LoopIterate
    /\ UNCHANGED shutdown_event
    /\ UNCHANGED storeVars
    /\ UNCHANGED harvestVars
    /\ UNCHANGED analyzerVars
    /\ UNCHANGED discoveryVars

\* discover_services returned `services`; run_harvest awaits harvest_specs
LoopDiscovered(services) ==
    /\ harvest_task.pc = "discover"
    /\ ~harvest_task.cancelling
    /\ harvest_task' = [harvest_task EXCEPT !.pc = "harvest", !.services = services]
    /\ UNCHANGED shutdown_event
    /\ UNCHANGED storeVars
    /\ UNCHANGED harvestVars
    /\ UNCHANGED analyzerVars
    /\ UNCHANGED discoveryVars

\* harvest_specs raised `exc`, which leaves run_harvest: `except Exception`
\* logs "Harvest cycle failed" and the loop goes on to wait_for (lines
\* 76-83); an exception it does not catch would end the task
LoopCycleFails(exc) ==
    /\ harvest_task.pc = "harvest"
    /\ ~harvest_task.cancelling
    /\ harvest_task' = IF IsException(exc)
                       THEN [harvest_task EXCEPT !.pc = "wait", !.last = "failed"]
                       ELSE [harvest_task EXCEPT !.pc = "raised", !.last = "failed"]
    /\ UNCHANGED shutdown_event
    /\ UNCHANGED storeVars
    /\ UNCHANGED harvestVars
    /\ UNCHANGED analyzerVars
    /\ UNCHANGED discoveryVars

\* harvest_specs returned the documents of `outcomes`: run_harvest analyses
\* them (which updates the compliance cache), summarises and returns; the
\* loop goes on to wait_for.  Nothing from line 96 to line 80 suspends.
LoopCycleCompletes(outcomes) ==
    LET at == harvest_task.cycle
        harvested == HarvestResult(harvest_task.services, outcomes, at)
        done == AnalyzeAllServices(compliance_cache, ServicesSpecs(harvested),
                                   spectral_installed, [i \in 1..MaxServices |-> <<>>], at, 1)
    IN  /\ harvest_task.pc = "harvest"
        /\ ~harvest_task.cancelling
        /\ \A i \in 1..MaxServices :
              outcomes[i] = "nothing" \/ i <= Len(harvest_task.services)
        /\ compliance_cache' = done.cache
        /\ harvest_task' = [harvest_task EXCEPT !.pc = "wait", !.last = "completed"]
        /\ UNCHANGED shutdown_event
        /\ UNCHANGED storeVars
        /\ UNCHANGED harvestVars
        /\ UNCHANGED <<spectral_installed, document, spectral_output, report, overview, analysis>>
        /\ UNCHANGED discoveryVars

\* wait_for(self.shutdown_event.wait(), timeout=interval_seconds) ends: the
\* event was set (break), or the interval passed (continue: the while test
\* and the next cycle)
LoopWaitEnds ==
    /\ harvest_task.pc = "wait"
    /\ ~harvest_task.cancelling
    /\ (harvest_task.cycle < MaxCycles \/ shutdown_event)
    /\ LoopIterate
    /\ UNCHANGED shutdown_event
    /\ UNCHANGED storeVars
    /\ UNCHANGED harvestVars
    /\ UNCHANGED analyzerVars
    /\ UNCHANGED discoveryVars

\* shutdown() up to its await of the task: shutdown_event.set() and
\* harvest_task.cancel(), with no suspension between the two
Shutdown ==
    /\ ~shutdown_event
    /\ shutdown_event' = TRUE
    /\ harvest_task' = IF harvest_task.pc \in Suspended
                       THEN [harvest_task EXCEPT !.cancelling = TRUE]
                       ELSE harvest_task
    /\ UNCHANGED storeVars
    /\ UNCHANGED harvestVars
    /\ UNCHANGED analyzerVars
    /\ UNCHANGED discoveryVars

\* The cancelled task's next step: CancelledError is thrown at the await it
\* is suspended in.  Inside run_harvest that is under `except Exception`,
\* in wait_for under `except asyncio.TimeoutError`; where it is not caught
\* the task ends cancelled.
LoopCancelled ==
    /\ harvest_task.pc \in Suspended
    /\ harvest_task.cancelling
    /\ harvest_task' =
          IF harvest_task.pc \in {"discover", "harvest"} /\ IsException("CancelledError")
          THEN [harvest_task EXCEPT !.pc = "wait", !.last = "failed", !.cancelling = FALSE]
          ELSE [harvest_task EXCEPT !.pc = "cancelled", !.cancelling = FALSE,
                                    !.at = harvest_task.pc]
    /\ UNCHANGED shutdown_event
    /\ UNCHANGED storeVars
    /\ UNCHANGED harvestVars
    /\ UNCHANGED analyzerVars
    /\ UNCHANGED discoveryVars

LoopNext ==
    \/ LoopStarts
    \/ \E services \in ServiceLists : LoopDiscovered(services)
    \/ \E exc \in CycleErrors : LoopCycleFails(exc)
    \/ \E outcomes \in [1..MaxServices -> HarvestOutcomes] : LoopCycleCompletes(outcomes)
    \/ LoopWaitEnds
    \/ Shutdown
    \/ LoopCancelled

SpecLoop == Init /\ [][LoopNext]_vars

\* The event loop runs a task that is ready: the cancelled task gets its
\* CancelledError, and the timer of wait_for fires after the interval.
SpecLoopFair ==
    /\ Init
    /\ [][LoopNext]_vars
    /\ WF_vars(LoopCancelled)
    /\ WF_vars(LoopWaitEnds)

----------------------------------------------------------------------------
(* Service discovery (core/istio_discovery.py), as the specification       *)
(* SpecDiscovery: one Kubernetes service of the namespace, one             *)
(* discover_services call with what the service's URLs answer during it,   *)
(* and the harvest of what the call returned.                              *)

\* the most candidate URLs of a service that answer anything but 404
MaxAnswering == 2

\* HealthChecker.discover_openapi_endpoint: common_paths, with the swagger
\* path moved to the front
CommonPaths_SwaggerFirst ==
    <<"/swagger.json", "/v3/api-docs", "/api-docs", "/openapi.json", "/docs/openapi.json">>

\* HealthChecker.discover_openapi_endpoint: common_paths
CommonPaths ==
    <<"/v3/api-docs", "/api-docs", "/swagger.json", "/openapi.json", "/docs/openapi.json">>

\* _create_discovery_config with SERVICE_LABEL_APP and the namespaces at
\* their defaults; health_check_enabled is HEALTH_CHECK_ENABLED = "true"
DiscoveryConfig(health_check_enabled) ==
    [label_selectors |-> [key \in {"app"} |-> "spring-boot"],
     annotation_filters |-> [key \in {"sidecar.istio.io/inject"} |-> "true"],
     health_check_enabled |-> health_check_enabled]

\* service.metadata.labels: no label, the selected one, another one
KubernetesLabels ==
    {[key \in keys |-> app] : keys \in SUBSET {"app"}, app \in {"spring-boot", "nodejs"}}

\* service.metadata.annotations: with or without the sidecar annotation and
\* the health path annotation
KubernetesAnnotations ==
    {[key \in keys |-> IF key = "sidecar.istio.io/inject" THEN inject ELSE "/health"] :
        keys \in SUBSET {"sidecar.istio.io/inject", "health.check.path"},
        inject \in {"true", "false"}}

\* service.spec.ports, each port by its name
ServicePorts == {<<>>, <<"http">>, <<"http", "management">>}

\* the services list_namespaced_service can return as an item
KubernetesServices ==
    {[name |-> "orders", namespace |-> "prod", labels |-> labels,
      annotations |-> annotations, ports |-> ports] :
        labels \in KubernetesLabels, annotations \in KubernetesAnnotations,
        ports \in ServicePorts}

\* dict.get(key) == value
GetIs(dict, key, value) == key \in DOMAIN dict /\ dict[key] = value

\* _matches_criteria with an annotation filter that excludes
MatchesCriteria_AnnotationsRequired(config, service) ==
    /\ \A key \in DOMAIN config.label_selectors :
          GetIs(service.labels, key, config.label_selectors[key])
    /\ \A key \in DOMAIN config.annotation_filters :
          GetIs(service.annotations, key, config.annotation_filters[key])

\* _matches_criteria: False at the first selector label the service does
\* not carry with the selected value; the loop over annotation_filters has
\* `continue` as its whole body; True otherwise
MatchesCriteria(config, service) ==
    \A key \in DOMAIN config.label_selectors :
        GetIs(service.labels, key, config.label_selectors[key])

\* f"http://{name}.{namespace}.svc.cluster.local:{port}"
Endpoint(name, namespace, port) == [host |-> name, namespace |-> namespace, port |-> port]

\* f"{endpoint}{path}" (the endpoints built above end in the port, so
\* rstrip('/') removes nothing)
Url(endpoint, path) == [endpoint |-> endpoint, path |-> path]

\* _create_service_info: one endpoint per port; the health endpoint is on
\* the first endpoint, at the annotated path or else at /actuator/health,
\* and is None only without endpoints
CreateServiceInfo(service) ==
    LET endpoints == [k \in 1..Len(service.ports) |->
                         Endpoint(service.name, service.namespace, service.ports[k])]
        health_endpoint ==
            IF endpoints # <<>> /\ "health.check.path" \in DOMAIN service.annotations
            THEN Url(endpoints[1], service.annotations["health.check.path"])
            ELSE IF endpoints # <<>>
                 THEN Url(endpoints[1], "/actuator/health")
                 ELSE None
    IN  [name |-> service.name, namespace |-> service.namespace,
         endpoints |-> endpoints, health_endpoint |-> health_endpoint,
         openapi_endpoint |-> None,
         istio_sidecar |-> \/ GetIs(service.annotations, "sidecar.istio.io/inject", "true")
                           \/ GetIs(service.labels, "istio-injection", "enabled")]

\* What a GET can come to: status 0 stands for an exception of session.get
\* (no response).
TransportError == [status |-> 0, content_type |-> ""]
NotFound == [status |-> 404, content_type |-> "application/json"]
CandidateAnswers ==
    {TransportError,
     [status |-> 200, content_type |-> "application/json"],
     [status |-> 200, content_type |-> "text/html"],
     [status |-> 203, content_type |-> "application/json"]}
HealthAnswers ==
    {TransportError,
     [status |-> 200, content_type |-> "application/json"],
     [status |-> 204, content_type |-> ""],
     [status |-> 503, content_type |-> "application/json"]}

\* 'json' in content_type
IsJson(content_type) == content_type \in {"application/json"}

\* the URLs discover_openapi_endpoint can ask of a service
Candidates(info) ==
    {Url(info.endpoints[e], CommonPaths[p]) : e \in DOMAIN info.endpoints, p \in DOMAIN CommonPaths}

\* What the URLs of a listed service answer during one discovery: the
\* health endpoint anything a health endpoint answers, at most MaxAnswering
\* of the candidates something other than 404.
Environments(info) ==
    LET candidates == Candidates(info)
        health == IF info.health_endpoint = None THEN {} ELSE {info.health_endpoint}
    IN  UNION {{[url \in candidates \cup health |->
                    IF url \in health THEN h
                    ELSE IF url \in answering THEN g[url] ELSE NotFound] :
                  g \in [answering -> CandidateAnswers], h \in HealthAnswers} :
               answering \in {x \in SUBSET candidates : Cardinality(x) <= MaxAnswering}}

\* check_health that asks nothing and assumes the service healthy
CheckHealth_AssumesHealthy(info, answers) == [healthy |-> TRUE, requested |-> <<>>]

\* HealthChecker.check_health: its verdict and the URLs it asked.  No
\* health endpoint: True without a request; an exception of the request is
\* caught and gives False (so @retry never runs it again); otherwise the
\* verdict is response.status == 200.
CheckHealth(info, answers) ==
    IF info.health_endpoint = None
    THEN [healthy |-> TRUE, requested |-> <<>>]
    ELSE LET response == answers[info.health_endpoint]
         IN  IF response.status = 0
             THEN [healthy |-> FALSE, requested |-> <<info.health_endpoint>>]
             ELSE [healthy |-> response.status = 200,
                   requested |-> <<info.health_endpoint>>]

RECURSIVE ProbeCandidates(_, _, _, _, _)
\* The loops of discover_openapi_endpoint from endpoint e, path p on, with
\* the URLs asked so far: the URL it returns (None after the last
\* candidate), the URLs it asked and whether it raised.  An exception of
\* session.get is caught (`except Exception: continue`).
ProbeCandidates(info, answers, e, p, probed) ==
    IF e > Len(info.endpoints)
    THEN [url |-> None, probed |-> probed, raised |-> FALSE]
    ELSE IF p > Len(CommonPaths)
    THEN ProbeCandidates(info, answers, e + 1, 1, probed)
    ELSE LET url == Url(info.endpoints[e], CommonPaths[p])
             response == answers[url]
         IN  IF response.status = 0
             THEN ProbeCandidates(info, answers, e, p + 1, Append(probed, url))
             ELSE IF response.status = 200 /\ IsJson(response.content_type)
             THEN [url |-> url, probed |-> Append(probed, url), raised |-> FALSE]
             ELSE ProbeCandidates(info, answers, e, p + 1, Append(probed, url))

\* HealthChecker.discover_openapi_endpoint
DiscoverOpenapiEndpoint(info, answers) == ProbeCandidates(info, answers, 1, 1, <<>>)

\* check_and_enrich_service: None for a service check_health calls
\* unhealthy, else the service with openapi_endpoint set to what
\* discover_openapi_endpoint returned; and the URLs asked, in order
CheckAndEnrichService(info, answers) ==
    LET health == CheckHealth(info, answers)
        found == DiscoverOpenapiEndpoint(info, answers)
    IN  IF ~health.healthy
        THEN [result |-> None, health |-> health.requested, probed |-> <<>>,
              raised |-> FALSE]
        ELSE [result |-> [info EXCEPT !.openapi_endpoint = found.url],
              health |-> health.requested, probed |-> found.probed,
              raised |-> found.raised]

\* _filter_and_enrich_services: with health_check_enabled false the
\* services are returned as they came (line 274: no health check, and no
\* search for the OpenAPI endpoint either); otherwise the tasks are
\* gathered and the ServiceInfo results kept, in order
FilterAndEnrichServices(config, services, answers) ==
    IF ~config.health_check_enabled
    THEN [services |-> services,
          results |-> [i \in DOMAIN services |-> None]]
    ELSE LET results == [i \in DOMAIN services |->
                            CheckAndEnrichService(services[i], answers)]
             kept == SelectSeq(results, LAMBDA r : r.result # None)
         IN  [services |-> [i \in DOMAIN kept |-> kept[i].result],
              results |-> results]

\* _discover_services_in_namespace: the ServiceInfo of every item that
\* matches the criteria (here the namespace holds one service)
ListedServices(config, service) ==
    IF MatchesCriteria(config, service) THEN <<CreateServiceInfo(service)>> ELSE <<>>

\* the platform with a cluster to discover: an IstioServiceDiscovery as
\* constructed, one service in the namespace, no discovery made yet
DiscoveryInit ==
    /\ StoreInit
    /\ HarvestIdle
    /\ AnalyzerIdle
    /\ ValidatorIdle
    /\ SchedulerIdle
    /\ spectral_installed = FALSE
    /\ cluster \in KubernetesServices
    /\ discovery_config \in {DiscoveryConfig(enabled) : enabled \in BOOLEAN}
    /\ service_info = None
    /\ fetch = None

\* discover_services(): the services listed in the namespace, filtered and
\* enriched by what their URLs answer.  service_info holds the listed
\* services, those answers, what the filter made of each listed service
\* and the list returned.
DiscoverServices ==
    LET listed == ListedServices(discovery_config, cluster)
    IN  /\ service_info = None
        /\ \E answers \in (IF listed = <<>> THEN {<<>>} ELSE Environments(listed[1])) :
              LET out == FilterAndEnrichServices(discovery_config, listed, answers)
              IN  service_info' = [listed |-> listed, answers |-> answers,
                                   results |-> out.results, returned |-> out.services]
        /\ UNCHANGED <<cluster, discovery_config, fetch>>
        /\ UNCHANGED storeVars
        /\ UNCHANGED harvestVars
        /\ UNCHANGED analyzerVars
        /\ UNCHANGED schedulerVars

\* run_harvest hands the returned services to harvest_specs, whose
\* _harvest_single_spec returns None at once for a service without
\* openapi_endpoint and otherwise sends the GET of that URL: fetch holds
\* the URLs requested, in order
HarvestDiscovered ==
    /\ service_info # None
    /\ fetch = None
    /\ LET endpoints == [i \in DOMAIN service_info.returned |->
                            service_info.returned[i].openapi_endpoint]
       IN  fetch' = [requested |-> SelectSeq(endpoints, LAMBDA url : url # None)]
    /\ UNCHANGED <<cluster, discovery_config, service_info>>
    /\ UNCHANGED storeVars
    /\ UNCHANGED harvestVars
    /\ UNCHANGED analyzerVars
    /\ UNCHANGED schedulerVars

DiscoveryNext ==
    \/ DiscoverServices
    \/ HarvestDiscovered

SpecDiscovery == DiscoveryInit /\ [][DiscoveryNext]_vars

----------------------------------------------------------------------------
(* Claims about the harvester, checked under Spec.                         *)

\* the responses _harvest_single_spec turns into a failed fetch: a
\* transport error, a non-200 status, a body that does not parse
FailedResponses == {r \in Responses : r.status # 200 \/ r.body = "unparseable"}

\* the documents for service i of caller c's list among a returned list
ReturnedFor(c, i, returned) ==
    {k \in DOMAIN returned :
        /\ returned[k].service_name = svcs[c][i].name
        /\ returned[k].namespace = svcs[c][i].namespace}

\* C1: at every instant the number of OpenAPI fetches in flight, over all
\* harvest_specs calls running on the one APIHarvester, is at most
\* MAX_CONCURRENT_REQUESTS.
C1_FetchesInFlightBounded == Cardinality(InFlight) <= MAX_CONCURRENT_REQUESTS

\* C2: while one harvest cycle is in progress no second cycle runs: at most
\* one caller is inside run_harvest at any time.
C2_OneCycleAtATime == Cardinality({c \in Callers : cpc[c] # "idle"}) <= 1

\* C3: a fetch failure of one service does not abort the harvest.  A fetch
\* that fails (non-200, transport error, unparseable body) ends its task
\* with no document, adds one to specs_failed, and leaves the call gathering
\* and the other tasks as they were; a fetch that succeeds ends its task
\* with the service's document; and the call ends by returning, the list
\* it returns holding exactly the documents of the services whose fetch
\* succeeded, none for a service whose fetch failed.
C3_FetchFailureIsolated ==
    [][\A c \in Callers :
          /\ \A i \in DOMAIN task[c] :
                (\E resp \in FailedResponses : FetchResolves(c, i, resp))
                    => /\ task'[c][i].pc = "done"
                       /\ task'[c][i].result = None
                       /\ metrics'.specs_failed = metrics.specs_failed + 1
                       /\ cpc'[c] = "gather"
                       /\ \A j \in DOMAIN task[c] \ {i} : task'[c][j] = task[c][j]
          /\ \A i \in DOMAIN task[c], resp \in Responses \ FailedResponses :
                FetchResolves(c, i, resp)
                    => /\ task'[c][i].pc = "done"
                       /\ task'[c][i].result # None
                       /\ task'[c][i].result.service_name = svcs[c][i].name
                       /\ task'[c][i].result.namespace = svcs[c][i].namespace
          /\ (cpc[c] = "gather" /\ cpc'[c] # "gather")
                => LET ok == {i \in DOMAIN task[c] : task[c][i].result # None}
                   IN  /\ cpc'[c] = "analyze"
                       /\ Len(specs'[c]) = Cardinality(ok)
                       /\ \A i \in ok :
                             \E k \in DOMAIN specs'[c] : specs'[c][k] = task[c][i].result
                       /\ \A i \in DOMAIN task[c] \ ok :
                             ReturnedFor(c, i, specs'[c]) = {}
    ]_vars

C5_RetriedUpToThreeAttempts ==
    [][\A c \in Callers, i \in 1..MaxServices, resp \in {r \in Responses : r.status \in {0, 500}} :
          FetchResolves(c, i, resp)
              => IF task[c][i].attempts < StopAfterAttempt
                 THEN /\ task'[c][i].pc # "done"
                      /\ metrics'.specs_failed = metrics.specs_failed
                 ELSE /\ task'[c][i].pc = "done"
                      /\ metrics'.specs_failed = metrics.specs_failed + 1
    ]_vars

\* C6: a document that was fetched and parsed but fails the well-formedness
\* check is not a harvest failure.  The 200 response with such a body ends
\* the task with a document that has is_valid = FALSE and a non-empty
\* validation_errors, counted in specs_successful and not in specs_failed;
\* and when harvest_specs returns, each such document is in the returned
\* list and in the store, under its file name, with these two fields.
C6_InvalidDocumentKept ==
    [][\A c \in Callers :
          /\ \A i \in DOMAIN task[c] :
                FetchResolves(c, i, [status |-> 200, body |-> "not_openapi"])
                    => /\ task'[c][i].pc = "done"
                       /\ task'[c][i].result # None
                       /\ task'[c][i].result.spec_content = "not_openapi"
                       /\ task'[c][i].result.is_valid = FALSE
                       /\ task'[c][i].result.validation_errors # <<>>
                       /\ metrics'.specs_successful = metrics.specs_successful + 1
                       /\ metrics'.specs_failed = metrics.specs_failed
          /\ (cpc[c] = "gather" /\ cpc'[c] = "analyze")
                => \A i \in DOMAIN task[c] :
                      LET r == task[c][i].result
                      IN  (r # None /\ ~WellFormed(r.spec_content))
                             => /\ \E k \in DOMAIN specs'[c] :
                                      /\ specs'[c][k] = r
                                      /\ specs'[c][k].is_valid = FALSE
                                      /\ specs'[c][k].validation_errors # <<>>
                                /\ FileName(r) \in DOMAIN files'
                                /\ files'[FileName(r)].data.kind = "json"
                                /\ files'[FileName(r)].data.spec_content = r.spec_content
                                /\ files'[FileName(r)].data.is_valid = FALSE
                                /\ files'[FileName(r)].data.validation_errors # <<>>
    ]_vars

----------------------------------------------------------------------------
(* Claims about SpecStorage, checked under SpecStore.                      *)

\* C7: get_latest_spec(service, namespace) never returns a document of
\* another (service_name, namespace) than the requested one.
C7_LatestHasRequestedIdentity ==
    (latest # None /\ latest.result.kind = "APISpec")
        => /\ latest.result.service_name = latest.service_name
           /\ latest.result.namespace = latest.namespace

\* C8: immediately after save_spec(doc) completes, get_latest_spec of doc's
\* identity returns a document equal to doc in every persisted field.
C8_PutThenLatest ==
    (/\ put # None
     /\ latest # None
     /\ latest.service_name = put.service_name
     /\ latest.namespace = put.namespace)
        => latest.result = put

\* C9: the store holds at most two documents per identity.
C9_AtMostTwoPerIdentity ==
    \A id \in Identities :
        Cardinality({k \in DOMAIN files : k[1] = id[1] /\ k[2] = id[2]}) <= 2

\* C10: a read error on the stored latest document counts as "no prior
\* document": get_latest_spec yields nothing and does not raise, and
\* detect_changes classifies the current document as new.
C10_ReadErrorMeansNoPrior ==
    /\ (latest # None /\ latest.read = "truncated") => latest.result = None
    /\ (changes # None /\ changes.read = "truncated") => changes.class = "new"

\* C11: writes to the store are atomic.  In every reachable state, also after
\* a save_spec that failed part-way, each file under the storage root holds
\* a complete document, and get_latest_spec never reads a partial one.
C11_WritesAtomic ==
    /\ \A k \in DOMAIN files : files[k].data.kind = "json"
    /\ latest # None => latest.read \in {"absent", "json"}

\* C12: a harvested document is compared with the latest document stored
\* for its own identity and classified as exactly one of new, unchanged and
\* updated: new exactly when the store holds no document of that identity,
\* otherwise unchanged when the content equals that of the stored document
\* of that identity it was compared with, and updated when it differs.
C12_ChangeClassified ==
    changes # None
        => LET cur == changes.spec
               prior == {k \in DOMAIN files :
                            k[1] = cur.service_name /\ k[2] = cur.namespace}
           IN  /\ changes.class \in {"new", "unchanged", "updated"}
               /\ changes.class = "new" <=> prior = {}
               /\ changes.class # "new"
                     => /\ changes.previous.kind = "APISpec"
                        /\ changes.previous.service_name = cur.service_name
                        /\ changes.previous.namespace = cur.namespace
                        /\ changes.class = "unchanged"
                              <=> changes.previous.spec_content = cur.spec_content

----------------------------------------------------------------------------
(* Claims about the linter findings and the score, checked under           *)
(* SpecValidator.                                                          *)

\* C13: for every list of linter findings the compliance score reported in
\* the overview is clamp(0, 100, 100 * (W - I) / W) rounded to one decimal
\* place, I the sum of the finding weights (critical 3, major 2, minor 1,
\* info 0, that is error 3, warn 2, info 1, hint 0) and W = I + 10: the
\* reported score is a whole number of tenths within 0.05 of that value.
C13_ScoreIsRoundedFormula ==
    (overview # None /\ document.paths.kind # "malformed")
        => LET F == report.spectral_results
               weight(i) == CASE F[i].severity = 0 -> 3
                              [] F[i].severity = 1 -> 2
                              [] F[i].severity = 2 -> 1
                              [] OTHER -> 0
               upto[k \in 0..Len(F)] == IF k = 0 THEN 0 ELSE upto[k - 1] + weight(k)
               I == upto[Len(F)]
               W == I + 10
               score == overview.compliance_percentage
               apart == score.num * W - 100 * (W - I) * score.den
           IN  /\ (10 * score.num) % score.den = 0
               /\ 20 * (IF apart < 0 THEN -apart ELSE apart) <= score.den * W

\* C14: the score of a document with zero findings is exactly 100.0, and so
\* is the score of a document whose findings all have the linter severity
\* hint (finding severity info, weight 0), however many there are.
C14_NoWeightScoresHundred ==
    (/\ overview # None
     /\ document.paths.kind # "malformed"
     /\ \A i \in DOMAIN report.spectral_results : report.spectral_results[i].severity = 3)
        => overview.compliance_percentage = Rat(100, 1)

\* C15: the score is strictly monotone in the findings.  For the findings F
\* of the analysed document and every further finding f of positive weight
\* (linter severity error, warn or info), the score of F with f added is
\* strictly below the reported score of F, unless that is already 0.
C15_ScoreStrictlyMonotone ==
    (overview # None /\ document.paths.kind # "malformed")
        => \A f \in {x \in Findings : x.severity \in 0..2} :
              \/ overview.compliance_percentage = Rat(0, 1)
              \/ RatLess(CalculateComplianceScore(Append(report.spectral_results, f)),
                         overview.compliance_percentage)

\* C15 witness: a document with findings was analysed and scored below 100
C15_Witness ==
    /\ overview # None
    /\ Len(report.spectral_results) = 2
    /\ RatLess(overview.compliance_percentage, Rat(100, 1))
    /\ RatLess(Rat(0, 1), overview.compliance_percentage)

\* C16: linter severities are mapped to finding severities by the one table
\* error -> critical, warn -> major, info -> minor, hint -> info, for every
\* finding placed in an overview: when all results of the linter have one
\* severity, every issue of the overview has the level the table gives it.
C16_SeverityTable ==
    (overview # None /\ document.paths.kind # "malformed")
        => \A severity \in 0..3 :
              (\A i \in DOMAIN report.spectral_results :
                    report.spectral_results[i].severity = severity)
                 => LET level == <<"critical", "major", "minor", "info">>[severity + 1]
                        issues == overview.naming_issues \o overview.error_issues
                    IN  \A i \in DOMAIN issues : issues[i].severity = level

\* C17: every finding the linter returns appears in the overview under
\* exactly one kind, none dropped and none listed twice: for every message,
\* the overview's naming and error issues with that description are together
\* as many as the linter's results with that message.
C17_EveryFindingUnderOneKind ==
    (overview # None /\ document.paths.kind # "malformed")
        => LET F == report.spectral_results
               issues == overview.naming_issues \o overview.error_issues
           IN  \A m \in {F[i].message : i \in DOMAIN F} :
                  Cardinality({i \in DOMAIN issues : issues[i].description = m})
                      = Cardinality({i \in DOMAIN F : F[i].message = m})

----------------------------------------------------------------------------
(* Claims about the compliance cache and the summary, checked under        *)
(* SpecAnalyzer.                                                           *)

\* C18: after the cache is updated with overview o, listing the cache yields
\* exactly one entry with o's identity and that entry equals o, and the
\* entries of all other identities are unchanged.  For a completed cycle:
\* each overview it cached is the one entry of its identity, in the cache
\* and in the listing of GET /compliance/overview; every entry of an
\* identity the cycle did not cache is as before; no other entry appears.
C18_UpdateThenList ==
    [][(analysis'.cycle = analysis.cycle + 1 /\ analysis'.status = "completed")
          => LET updated == {k \in DOMAIN analysis'.overviews : analysis'.cached[k]}
                 id(o) == <<o.service_name, o.namespace>>
                 ids == {id(analysis'.overviews[k]) : k \in updated}
                 listing == GetComplianceOverview(compliance_cache')
             IN  /\ \A k \in updated :
                       LET o == analysis'.overviews[k]
                           same == {key \in DOMAIN compliance_cache' :
                                       id(compliance_cache'[key]) = id(o)}
                       IN  /\ Cardinality(same) = 1
                           /\ \A key \in same : compliance_cache'[key] = o
                           /\ GetCachedCompliance(compliance_cache', o.service_name, o.namespace) = o
                           /\ Cardinality({key \in DOMAIN listing : id(listing[key]) = id(o)}) = 1
                           /\ \A key \in DOMAIN listing :
                                 id(listing[key]) = id(o)
                                    => /\ listing[key].compliance_percentage = o.compliance_percentage
                                       /\ listing[key].total_endpoints = o.total_endpoints
                                       /\ listing[key].inconsistent_naming_count = Len(o.naming_issues)
                                       /\ listing[key].inconsistent_error_count = Len(o.error_issues)
                                       /\ FromIsoFormat(listing[key].last_analyzed) = o.last_analyzed
                 /\ \A key \in DOMAIN compliance_cache :
                       id(compliance_cache[key]) \notin ids
                          => /\ key \in DOMAIN compliance_cache'
                             /\ compliance_cache'[key] = compliance_cache[key]
                 /\ \A key \in DOMAIN compliance_cache' \ DOMAIN compliance_cache :
                       id(compliance_cache'[key]) \in ids
    ]_vars

\* C18 witness: the second cycle replaced the entry of one identity while
\* the entry another identity got in the first cycle is still held
C18_Witness ==
    /\ analysis.cycle = 2
    /\ analysis.status = "completed"
    /\ \E k \in DOMAIN analysis.overviews : analysis.cached[k]
    /\ \E k1, k2 \in DOMAIN compliance_cache :
          /\ compliance_cache[k1].last_analyzed = 1
          /\ compliance_cache[k2].last_analyzed = 2
          /\ compliance_cache[k1].service_name = compliance_cache[k2].service_name

\* C19 as stated: in every fleet summary each overview is counted in exactly
\* one band (high: score >= 90, medium: 70 <= score < 90, low: score < 70),
\* so high + medium + low = total_services, and average_score is the
\* arithmetic mean of the service scores, 0 when there are no services.
C19_BandsAndMean ==
    analysis.status = "completed"
        => LET o == analysis.overviews
               sm == analysis.summary
               total[k \in 0..Len(o)] ==
                   IF k = 0 THEN Rat(0, 1) ELSE RatAdd(total[k - 1], o[k].compliance_percentage)
               band(x) == IF RatLeq(Rat(90, 1), x) THEN "high"
                          ELSE IF RatLeq(Rat(70, 1), x) THEN "medium" ELSE "low"
               in(b) == Cardinality({k \in DOMAIN o : band(o[k].compliance_percentage) = b})
           IN  /\ sm.total_services = Len(o)
               /\ sm.services_by_compliance.high = in("high")
               /\ sm.services_by_compliance.medium = in("medium")
               /\ sm.services_by_compliance.low = in("low")
               /\ sm.services_by_compliance.high + sm.services_by_compliance.medium
                     + sm.services_by_compliance.low = sm.total_services
               /\ sm.average_compliance =
                     IF o = <<>> THEN Rat(0, 1) ELSE RatDiv(total[Len(o)], Len(o))

\* C19 amended: the bands as stated, and average_score is the arithmetic
\* mean of the service scores rounded to one decimal place (a whole number
\* of tenths within 0.05 of the mean), 0 when there are no services.
C19_BandsAndRoundedMean ==
    analysis.status = "completed"
        => LET o == analysis.overviews
               sm == analysis.summary
               total[k \in 0..Len(o)] ==
                   IF k = 0 THEN Rat(0, 1) ELSE RatAdd(total[k - 1], o[k].compliance_percentage)
               band(x) == IF RatLeq(Rat(90, 1), x) THEN "high"
                          ELSE IF RatLeq(Rat(70, 1), x) THEN "medium" ELSE "low"
               in(b) == Cardinality({k \in DOMAIN o : band(o[k].compliance_percentage) = b})
               avg == sm.average_compliance
               apart == avg.num * total[Len(o)].den * Len(o) - total[Len(o)].num * avg.den
           IN  /\ sm.total_services = Len(o)
               /\ sm.services_by_compliance.high = in("high")
               /\ sm.services_by_compliance.medium = in("medium")
               /\ sm.services_by_compliance.low = in("low")
               /\ sm.services_by_compliance.high + sm.services_by_compliance.medium
                     + sm.services_by_compliance.low = sm.total_services
               /\ o = <<>> => avg = Rat(0, 1)
               /\ (10 * avg.num) % avg.den = 0
               /\ 20 * (IF apart < 0 THEN -apart ELSE apart)
                     <= avg.den * total[Len(o)].den * Len(o)

\* C19 witness: a summary of two services in different bands whose mean is
\* not a whole number of tenths
C19_Witness ==
    /\ analysis.status = "completed"
    /\ analysis.summary.total_services = 2
    /\ analysis.summary.services_by_compliance.high = 1
    /\ analysis.summary.services_by_compliance.medium = 1
    /\ analysis.summary.average_compliance
          # RatDiv(RatAdd(analysis.overviews[1].compliance_percentage,
                          analysis.overviews[2].compliance_percentage), 2)

C21_ProbeFailureKeepsOverview ==
    [][(analysis'.cycle = analysis.cycle + 1 /\ analysis'.status = "completed")
          => LET located == {<<analysis'.services[i].name, analysis'.services[i].namespace>> :
                                i \in {j \in DOMAIN analysis'.services :
                                          analysis'.services[j].openapi_endpoint # None}}
             IN  \A id \in Identities \ located :
                    /\ \A k \in DOMAIN analysis'.specs :
                          <<analysis'.specs[k].service_name, analysis'.specs[k].namespace>> # id
                    /\ \A k \in DOMAIN analysis'.overviews :
                          <<analysis'.overviews[k].service_name,
                            analysis'.overviews[k].namespace>> # id
                    /\ GetCachedCompliance(compliance_cache', id[1], id[2])
                          = GetCachedCompliance(compliance_cache, id[1], id[2])
    ]_vars

\* C21 witness: the second cycle completed with a service returned without
\* an OpenAPI endpoint while the cache holds its overview of the first
\* cycle, next to an overview the second cycle cached
C21_Witness ==
    /\ analysis.cycle = 2
    /\ analysis.status = "completed"
    /\ \E i \in DOMAIN analysis.services :
          /\ analysis.services[i].openapi_endpoint = None
          /\ GetCachedCompliance(compliance_cache, analysis.services[i].name,
                                 analysis.services[i].namespace) # None
          /\ GetCachedCompliance(compliance_cache, analysis.services[i].name,
                                 analysis.services[i].namespace).last_analyzed = 1
    /\ \E key \in DOMAIN compliance_cache : compliance_cache[key].last_analyzed = 2

----------------------------------------------------------------------------
(* Claims about the background loop and shutdown, checked under SpecLoop   *)
(* and SpecLoopFair.                                                       *)

\* C22: if the in-flight cycle is cancelled at any point, the compliance
\* cache afterwards equals the snapshot the prior cycle left, or that
\* snapshot with the entries of a subset of this cycle's services replaced
\* by their complete new overviews; no entry is half-updated and none is
\* removed.  The cancellation itself leaves the cache alone, and at every
\* point at which it can arrive each entry of the snapshot is still held,
\* as it was or as a complete overview this cycle made of one of its
\* services, and every further entry is such an overview.
C22_CancelLeavesSnapshotOrSubset ==
    /\ [][LoopCancelled => compliance_cache' = compliance_cache]_vars
    /\ [](LET snapshot == harvest_task.snapshot
              services == harvest_task.services
              fresh(key) ==
                  \E i \in DOMAIN services, content \in Contents :
                      /\ services[i].openapi_endpoint # None
                      /\ key = CacheKey(services[i].name, services[i].namespace)
                      /\ compliance_cache[key] =
                            AnalyzeServiceCompliance(services[i].name, services[i].namespace,
                                SpecContent(content), services[i].openapi_endpoint,
                                spectral_installed, <<>>, harvest_task.cycle).overview
          IN  /\ \A key \in DOMAIN snapshot :
                    /\ key \in DOMAIN compliance_cache
                    /\ compliance_cache[key] = snapshot[key] \/ fresh(key)
              /\ \A key \in DOMAIN compliance_cache \ DOMAIN snapshot : fresh(key))

\* C22 witness: the second cycle was cancelled while harvest_specs was
\* awaited, with overviews of the first cycle in the cache
C22_Witness ==
    /\ harvest_task.pc = "cancelled"
    /\ harvest_task.at = "harvest"
    /\ harvest_task.cycle = 2
    /\ harvest_task.services # <<>>
    /\ harvest_task.snapshot # EmptyDir
    /\ compliance_cache = harvest_task.snapshot

\* C26: in continuous mode a cycle that fails with an error does not stop
\* the background loop: the failure is caught and logged, the compliance
\* cache is as it was before the call, the loop waits one harvest interval
\* and then starts the next cycle, unless shutdown is requested first.
C26_FailedCycleKeepsLooping ==
    /\ [][\A exc \in CycleErrors :
            LoopCycleFails(exc) =>
                /\ harvest_task'.pc = "wait"
                /\ harvest_task'.last = "failed"
                /\ harvest_task'.cycle = harvest_task.cycle
                /\ compliance_cache' = harvest_task.snapshot
                /\ compliance_cache' = compliance_cache]_vars
    /\ \A n \in 1..(MaxCycles - 1) :
          (harvest_task.pc = "wait" /\ harvest_task.last = "failed" /\ harvest_task.cycle = n)
              ~> (shutdown_event \/ (harvest_task.pc = "discover" /\ harvest_task.cycle = n + 1))

\* C26 witness: the first cycle failed, leaving the cache empty as it was,
\* and the loop has started the second cycle
C26_Witness ==
    /\ ~shutdown_event
    /\ harvest_task.pc = "discover"
    /\ harvest_task.cycle = 2
    /\ harvest_task.last = "failed"
    /\ compliance_cache = EmptyDir

\* C27: once shutdown is requested the background loop eventually ends,
\* cancelled or returned, whether it was waiting between two cycles or in
\* the middle of one, and it starts no cycle after the request.
C27_ShutdownStopsLoop ==
    /\ shutdown_event ~> harvest_task.pc \in {"cancelled", "returned"}
    /\ [][shutdown_event => harvest_task'.cycle = harvest_task.cycle]_vars
    /\ [][Shutdown => harvest_task'.cycle = harvest_task.cycle]_vars

\* C27 witness: shutdown was requested while the second cycle awaited
\* harvest_specs, and the task has ended cancelled at that await
C27_Witness ==
    /\ shutdown_event
    /\ harvest_task.pc = "cancelled"
    /\ harvest_task.at = "harvest"
    /\ harvest_task.cycle = 2
    /\ harvest_task.last = "completed"

----------------------------------------------------------------------------
(* Claims about the harvest counters and the shared session, checked under *)
(* Spec.                                                                   *)

\* C28: when harvest_specs finishes, for any input, the harvest counters
\* are consistent: specs_successful is the number of documents returned,
\* specs_successful + specs_failed is specs_attempted (every attempted
\* fetch counts as exactly one of the two), and success_rate is
\* specs_successful / specs_attempted, or 0 when nothing was attempted.
C28_CountersConsistent ==
    [][\A c \in Callers, failAt \in 0..MaxServices, mode \in {"open_failed", "dump_failed"},
          ticks \in [1..MaxServices -> {0, 1}] :
            FilterResults(c, failAt, mode, ticks) =>
                /\ metrics'.specs_successful = Len(specs'[c])
                /\ metrics'.specs_successful + metrics'.specs_failed = metrics'.specs_attempted
                /\ SuccessRate(metrics').num * metrics'.specs_attempted
                       = metrics'.specs_successful * SuccessRate(metrics').den
                /\ metrics'.specs_attempted = 0 => SuccessRate(metrics').num = 0]_vars

\* C29: for any interleaving of harvest_specs calls on the one APIHarvester
\* the session an in-flight fetch uses is open until the fetch resolves:
\* the end of one call neither closes the session the fetches of another
\* call are using, nor does a call reset the counters of a call that is
\* still running.
C29_SessionAndCountersPerCall ==
    /\ [](\A c \in Callers, i \in 1..Len(Mesh) :
             (i \in DOMAIN task[c] /\ task[c][i].pc = "fetching")
                 => task[c][i].sess \in openSessions)
    /\ [][\A c \in Callers, services \in ServiceLists :
            (HarvestStart(c, services) /\ \E d \in Callers \ {c} : cpc[d] = "gather")
                => metrics' = metrics]_vars

----------------------------------------------------------------------------
(* Claims about service discovery, checked under SpecDiscovery.            *)

\* C23: a candidate service is included by the criteria check of discovery
\* if and only if every configured selector label is present on it with
\* the configured value; annotation filters never exclude a service.
C23_IncludedIffLabelsMatch ==
    service_info # None =>
        /\ service_info.listed # <<>> <=>
              \A key \in DOMAIN discovery_config.label_selectors :
                  /\ key \in DOMAIN cluster.labels
                  /\ cluster.labels[key] = discovery_config.label_selectors[key]
        /\ \A i \in DOMAIN service_info.listed :
              /\ service_info.listed[i].name = cluster.name
              /\ service_info.listed[i].namespace = cluster.namespace

\* C23 witness: a service with the selected label whose sidecar annotation
\* is not the filtered value has been listed
C23_Witness ==
    /\ service_info # None
    /\ service_info.listed # <<>>
    /\ "sidecar.istio.io/inject" \in DOMAIN cluster.annotations
    /\ cluster.annotations["sidecar.istio.io/inject"] = "false"

\* The verdict of the probe when the statuses in `live` count as live: a
\* listed service with a health endpoint is asked on it once and is live
\* exactly when the answer is a response with such a status (no response:
\* not live); one without is live and is not asked; and the returned
\* services are exactly the live ones.
ProbeVerdict(live) ==
    (service_info # None /\ discovery_config.health_check_enabled) =>
        /\ \A i \in DOMAIN service_info.listed :
              LET info == service_info.listed[i]
                  res == service_info.results[i]
              IN  IF info.health_endpoint # None
                  THEN /\ res.health = <<info.health_endpoint>>
                       /\ res.result # None <=>
                              service_info.answers[info.health_endpoint].status \in live
                  ELSE /\ res.health = <<>>
                       /\ res.result # None
        /\ Len(service_info.returned)
              = Cardinality({i \in DOMAIN service_info.listed :
                                service_info.results[i].result # None})
        /\ \A k \in DOMAIN service_info.returned :
              \E i \in DOMAIN service_info.listed :
                  service_info.results[i].result = service_info.returned[k]

\* C24: the liveness verdict of the probe: a service with a health path is
\* live if and only if the GET on that path gets a 2xx response, a request
\* error makes it not live, a service with no health hint at all is
\* assumed live without being probed, and the services judged not live are
\* omitted from the discovered set.
C24_LiveIffHealth2xx == ProbeVerdict(200..299)

\* C24, amended: as above, with live if and only if the GET gets status 200.
C24_LiveIffHealth200 == ProbeVerdict({200})

\* C24 witness: a listed service whose health endpoint answered 204 has
\* been omitted
C24_Witness ==
    /\ service_info # None
    /\ discovery_config.health_check_enabled
    /\ service_info.listed # <<>>
    /\ service_info.listed[1].health_endpoint # None
    /\ service_info.answers[service_info.listed[1].health_endpoint].status = 204
    /\ service_info.returned = <<>>

\* the candidate paths in the order the claim states
ClaimedPaths ==
    <<"/v3/api-docs", "/api-docs", "/swagger.json", "/openapi.json", "/docs/openapi.json">>

\* The search for the OpenAPI endpoint when the statuses in `ok` count as a
\* match: for every service the search ran on, the URLs asked are the
\* candidates in the stated order (endpoint by endpoint, path by path) up
\* to and including the first that answers with such a status and a JSON
\* content type, or all of them when none does; the result is that first
\* URL, or None; and the search does not raise.
FirstMatch(ok) ==
    service_info # None =>
        \A i \in DOMAIN service_info.listed :
            (service_info.results[i] # None /\ service_info.results[i].result # None) =>
                LET info == service_info.listed[i]
                    res == service_info.results[i]
                    width == Len(ClaimedPaths)
                    n == Len(info.endpoints) * width
                    candidate(k) == Url(info.endpoints[((k - 1) \div width) + 1],
                                        ClaimedPaths[((k - 1) % width) + 1])
                    matching == {k \in 1..n :
                                    /\ service_info.answers[candidate(k)].status \in ok
                                    /\ IsJson(service_info.answers[candidate(k)].content_type)}
                    first == CHOOSE k \in matching : \A j \in matching : k <= j
                IN  /\ ~res.raised
                    /\ IF matching = {}
                       THEN /\ res.probed = [k \in 1..n |-> candidate(k)]
                            /\ res.result.openapi_endpoint = None
                       ELSE /\ res.probed = [k \in 1..first |-> candidate(k)]
                            /\ res.result.openapi_endpoint = candidate(first)

\* C25: discover_openapi_endpoint probes the candidates in the fixed order,
\* for each endpoint in order the paths /v3/api-docs, /api-docs,
\* /swagger.json, /openapi.json, /docs/openapi.json, and returns the first
\* URL that answers 2xx with a JSON content type without probing any later
\* candidate; a network error, a non-2xx or a non-JSON answer of one
\* candidate never raises and only moves on to the next; the result is
\* none when no candidate matches.
C25_FirstCandidate2xxJson == FirstMatch(200..299)

\* C25, amended: as above, with the first URL that answers status 200 with
\* a JSON content type, and any other status moving on to the next.
C25_FirstCandidate200Json == FirstMatch({200})

\* C25 witness: the search passed a candidate whose request failed and
\* found the document on the second endpoint
C25_Witness ==
    /\ service_info # None
    /\ service_info.returned # <<>>
    /\ service_info.returned[1].openapi_endpoint # None
    /\ service_info.returned[1].openapi_endpoint.endpoint.port = "management"
    /\ \E k \in DOMAIN service_info.results[1].probed :
          service_info.answers[service_info.results[1].probed[k]] = TransportError

\* C30: with HEALTH_CHECK_ENABLED set to false a cycle still harvests the
\* discovered services: every discovered service that serves an OpenAPI
\* document at one of the well-known paths gets its openapi endpoint
\* located and its document fetched, exactly as when health checks are
\* enabled.
C30_HarvestsWithoutHealthCheck ==
    (fetch # None /\ ~discovery_config.health_check_enabled) =>
        \A i \in DOMAIN service_info.listed :
            LET info == service_info.listed[i]
                serving == {url \in Candidates(info) :
                               /\ service_info.answers[url].status = 200
                               /\ IsJson(service_info.answers[url].content_type)}
                located == DiscoverOpenapiEndpoint(info, service_info.answers).url
            IN  serving # {} =>
                    /\ \E k \in DOMAIN service_info.returned :
                          /\ service_info.returned[k].name = info.name
                          /\ service_info.returned[k].namespace = info.namespace
                          /\ service_info.returned[k].openapi_endpoint = located
                    /\ \E k \in DOMAIN fetch.requested : fetch.requested[k] = located

====
